---- MODULE Spec2Model ----
(***************************************************************************)
(* Spatial-index core of the agent-mapping crate:                          *)
(*   - partition / TreeNode::new / nearest_neighbors   (kd_tree.rs)        *)
(*   - process_region / find_split / map_vehicles      (quadtree.rs)       *)
(*   - ZValue, UnitFixedPoint, Region, UTMCoordinates  (z_order.rs,        *)
(*     unit_fixed.rs, geo.rs)                                              *)
(* Coordinates (f64 in the source) are modelled as exact integers; Rust's  *)
(* 0-based slice indices are kept, sequences being read through At().      *)
(* The u32 and u64 of ZValue are sequences of bits, at their full width.   *)
(***************************************************************************)
EXTENDS Integers, Sequences, FiniteSets, TLC

\* ------------------------------------------------------------------------
\* Bounds of the model
\* ------------------------------------------------------------------------
\* longest array handed to partition in SpecPartition
MaxLen == 4
\* largest element value of those arrays
MaxVal == 2
\* most records a tree is built from in SpecTree
MaxPts == 4
\* largest k (length of the output buffer) of a query
MaxK == 2
\* bits of a UnitFixedPoint in SpecQuad (32 in the source); a ZValue has 2 * Bits
Bits == 2
\* most agents, most buildings and largest split_threshold handed to map_vehicles
MaxAgents == 3
MaxBldgs == 2
MaxThreshold == 2
\* most agents in the slice of the leaf calls of SpecCell
MaxCellAgents == 2

\* f64::INFINITY: larger than every squared distance of the model
INFINITY == 1000000

VARIABLES
    p_array,    \* partition: the array argument (a sequence)
    p_out,      \* partition: the returned (lt, pivot, ge), or "none" before the call
    p_pc,       \* partition: "call" before the call, "done" after
    points,     \* kd tree: data, the records (their UTMCoordinates); record r is points[r]
    refs,       \* kd tree: the Vec<&T> reordered by the build (record indices)
    btasks,     \* kd tree: the TreeNode::new calls not yet run (fork-join tasks)
    nodes,      \* kd tree: node id -> record kept at the node; children of i are 2i, 2i+1
    built_from, \* kd tree: node id -> the slice and axis its TreeNode::new call received
    query,      \* query: the query point
    max_dist,   \* query: max_dist as passed to UTMTree::nearest_neighbors (not squared)
    best,       \* query: the output buffer, slots [rec, d]; rec = 0 is None
    stack,      \* query: the call stack of TreeNode::nearest_neighbors
    knn,        \* query: the Vec returned by collect_nearest
    visited,    \* query: the nodes TreeNode::nearest_neighbors was called on, in call order
    k_pc,       \* kd tree: "build", "query", "done", "panic"
    agents,     \* map_vehicles: the agent slice (positions); agent a is agents[a]
    bldgs,      \* map_vehicles: the building slice ([bbox, centroid, area])
    threshold,  \* map_vehicles: split_threshold
    mapper,     \* map_vehicles: which mapper function was passed
    region,     \* map_vehicles: the region spanned by all agents and buildings
    agent_data, \* map_vehicles: Vec of [agent, z, cell]; cell = 0 is an empty OnceCell
    qtasks,     \* the process_region calls not yet finished (fork-join tasks)
    calls,      \* every call of the mapper so far: [agent, bldgs, ret]
    path_end,   \* agent -> building list of the deepest process_region call that got it
    deepest,    \* depth of the deepest process_region call made so far
    splits,     \* every split made so far: the call and the ranges and lists it made
    output,     \* map_vehicles: the pairs yielded by the returned iterator
    q_err,      \* "none", or the message of the first panic
    z_p1,       \* Z-values: the first point (x, y), two u32
    z_p2,       \* Z-values: the second point
    z_out,      \* Z-values: the two ZValues made from the points, then their comparisons
    z_pc,       \* Z-values: "encode", "compare", "done"
    f_in,       \* fixed point: the f64 inputs still to convert
    f_out,      \* fixed point: [x, n] for every converted input x
    f_pc,       \* fixed point: "convert", "done", "panic"
    q_pc        \* map_vehicles: "new", "encode", "process", "done", "panic"

pvars == <<p_array, p_out, p_pc>>

kvars == <<points, refs, btasks, nodes, built_from, query, max_dist, best, stack, knn, visited,
           k_pc>>

qvars == <<agents, bldgs, threshold, mapper, region, agent_data, qtasks, calls, path_end,
           deepest, splits, output, q_err, q_pc>>

zvars == <<z_p1, z_p2, z_out, z_pc>>

fvars == <<f_in, f_out, f_pc>>

vars == <<p_array, p_out, p_pc,
          points, refs, btasks, nodes, built_from, query, max_dist, best, stack, knn, visited,
          k_pc,
          agents, bldgs, threshold, mapper, region, agent_data, qtasks, calls, path_end,
          deepest, splits, output, q_err, q_pc,
          z_p1, z_p2, z_out, z_pc, f_in, f_out, f_pc>>

\* ------------------------------------------------------------------------
\* Slices
\* ------------------------------------------------------------------------
\* a[i] with Rust's 0-based index
At(a, i) == a[i + 1]

\* a[lo..hi] (hi exclusive), 0-based
Slice(a, lo, hi) == [n \in 1..(hi - lo) |-> a[lo + n]]

\* slice::swap(i, j)
Swap(a, i, j) ==
    [n \in 1..Len(a) |-> IF n = i + 1 THEN a[j + 1]
                         ELSE IF n = j + 1 THEN a[i + 1]
                         ELSE a[n]]

\* the elements of a sequence, as a set
Range(a) == {a[n] : n \in 1..Len(a)}

\* ------------------------------------------------------------------------
\* kd_tree.rs: partition
\* The comparison closure is given by key: cmp(a, b) compares key[a], key[b].
\* ------------------------------------------------------------------------
PanicOut(m) == [status |-> "panic", msg |-> m]

\* while cmp(&elems[i], pivot) == Ordering::Less { i += 1; }
\* -1: the index ran off the slice (index out of bounds panic)
RECURSIVE ScanUp(_, _, _, _)
ScanUp(elems, key, pk, i) ==
    IF i >= Len(elems) THEN -1
    ELSE IF key[At(elems, i)] < pk THEN ScanUp(elems, key, pk, i + 1)
    ELSE i

\* loop { j -= 1; if cmp(&elems[j], pivot) != Ordering::Greater { break; } }
\* -1: j was decremented below 0 (subtract overflow / index out of bounds)
RECURSIVE ScanDown(_, _, _, _)
ScanDown(elems, key, pk, j) ==
    IF j = 0 THEN -1
    ELSE IF key[At(elems, j - 1)] <= pk THEN j - 1
    ELSE ScanDown(elems, key, pk, j - 1)

\* the outer loop of partition, from the state (elems, i, j)
RECURSIVE PartitionLoop(_, _, _, _, _)
PartitionLoop(elems, key, pk, i, j) ==
    LET i1 == ScanUp(elems, key, pk, i) IN
    IF i1 = -1 THEN PanicOut("index out of bounds")
    ELSE LET j1 == ScanDown(elems, key, pk, j) IN
         IF j1 = -1 THEN PanicOut("index out of bounds")
         ELSE IF i1 >= j1
              THEN [status |-> "ok", elems |-> elems, split |-> i1]
              ELSE PartitionLoop(Swap(elems, i1, j1), key, pk, i1, j1)

\* the three conditional swaps that move the median of array[0], array[mid],
\* array[hi] to the last position
MedianOfThreeMaxLast(array, key) ==
    LET hi == Len(array) - 1
        mid == Len(array) \div 2
        a1 == IF key[At(array, mid)] < key[At(array, 0)] THEN Swap(array, mid, 0) ELSE array
        a2 == IF key[At(a1, hi)] < key[At(a1, 0)] THEN Swap(a1, hi, 0) ELSE a1
    IN  a2

\* the array left as it is: no median moved to the last position
MedianOfThreeSkipped(array, key) == array

MedianOfThree(array, key) ==
    LET hi == Len(array) - 1
        mid == Len(array) \div 2
        a1 == IF key[At(array, mid)] < key[At(array, 0)] THEN Swap(array, mid, 0) ELSE array
        a2 == IF key[At(a1, hi)] < key[At(a1, 0)] THEN Swap(a1, hi, 0) ELSE a1
        a3 == IF key[At(a2, mid)] < key[At(a2, hi)] THEN Swap(a2, hi, mid) ELSE a2
    IN  a3

\* the array.len() == 2 branch
PartitionTwo(array, key) ==
    LET a == IF key[At(array, 0)] > key[At(array, 1)] THEN Swap(array, 0, 1) ELSE array
    IN  [status |-> "ok", lt |-> <<At(a, 0)>>, pivot |-> At(a, 1), ge |-> <<>>, arr |-> a]

\* partition(array, cmp): arr is the array as reordered in place,
\* laid out as lt ++ ge ++ <<pivot>>
Partition(array, key) ==
    IF Len(array) = 0 THEN PanicOut("cannot partition arrays of size 0")
    ELSE IF Len(array) = 1
    THEN [status |-> "ok", lt |-> <<>>, pivot |-> At(array, 0), ge |-> <<>>, arr |-> array]
    ELSE IF Len(array) = 2 THEN PartitionTwo(array, key)
    ELSE LET a == MedianOfThree(array, key)
             hi == Len(array) - 1
             pivot == At(a, hi)
             elems == Slice(a, 0, hi)
             r == PartitionLoop(elems, key, key[pivot], 0, Len(elems))
         IN  IF r.status = "panic" THEN r
             ELSE [status |-> "ok",
                   lt |-> Slice(r.elems, 0, r.split),
                   pivot |-> pivot,
                   ge |-> Slice(r.elems, r.split, Len(r.elems)),
                   arr |-> Append(r.elems, pivot)]

\* ------------------------------------------------------------------------
\* SpecPartition: partition applied to every array of a bounded set
\* (tests::quickcheck_partition_correctness: data: Vec<u64>, cmp = x.cmp(y))
\* ------------------------------------------------------------------------
Values == 0..MaxVal

\* the key of a u64 under its natural comparison is itself
NaturalKey == [v \in Values |-> v]

Arrays == UNION {[1..n -> Values] : n \in 0..MaxLen}

\* the variables of the kd tree when no tree is being built or queried
TreeIdle ==
    /\ points = <<>>
    /\ refs = <<>>
    /\ btasks = {}
    /\ nodes = <<>>
    /\ built_from = <<>>
    /\ query = [x |-> 0, y |-> 0]
    /\ max_dist = 0
    /\ best = <<>>
    /\ stack = <<>>
    /\ knn = <<>>
    /\ visited = <<>>
    /\ k_pc = "idle"

\* the variables of partition when it is not being called
PartitionIdle ==
    /\ p_array = <<>>
    /\ p_out = "none"
    /\ p_pc = "idle"

\* the variables of map_vehicles when it is not being called
QuadIdle ==
    /\ agents = <<>>
    /\ bldgs = <<>>
    /\ threshold = 1
    /\ mapper = "none"
    /\ region = "none"
    /\ agent_data = <<>>
    /\ qtasks = {}
    /\ calls = <<>>
    /\ path_end = <<>>
    /\ deepest = 0
    /\ splits = {}
    /\ output = <<>>
    /\ q_err = "none"
    /\ q_pc = "idle"

\* the variables of the Z-value comparisons when none is being made
ZIdle ==
    /\ z_p1 = <<>>
    /\ z_p2 = <<>>
    /\ z_out = <<>>
    /\ z_pc = "idle"

\* the variables of the fixed-point conversions when none is being made
FixedIdle ==
    /\ f_in = <<>>
    /\ f_out = <<>>
    /\ f_pc = "idle"

InitPartition ==
    /\ p_array \in Arrays
    /\ p_out = "none"
    /\ p_pc = "call"
    /\ TreeIdle
    /\ QuadIdle
    /\ ZIdle
    /\ FixedIdle

\* let (lt, pivot, ge) = partition(&mut data, |x, y| x.cmp(y));
CallPartition ==
    /\ p_pc = "call"
    /\ p_out' = Partition(p_array, NaturalKey)
    /\ p_pc' = "done"
    /\ UNCHANGED p_array
    /\ UNCHANGED <<kvars, qvars, zvars, fvars>>

NextPartition == CallPartition

SpecPartition == InitPartition /\ [][NextPartition]_vars

\* ------------------------------------------------------------------------
\* geo.rs / kd_tree.rs: coordinates
\* ------------------------------------------------------------------------
\* f64::powi(x, 2)
Powi2(x) == IF x = INFINITY \/ x = -INFINITY THEN INFINITY ELSE x * x

\* UTMCoordinates::squared_dist
squared_dist(a, b) == Powi2(a.x - b.x) + Powi2(a.y - b.y)

\* coords_lt with <= in place of <
coords_le(a, b, y_axis) == IF y_axis THEN a.y <= b.y ELSE a.x <= b.x

\* coords_lt
coords_lt(a, b, y_axis) == IF y_axis THEN a.y < b.y ELSE a.x < b.x

\* the closure handed to partition by TreeNode::new:
\* |&e1, &e2| coords_cmp(e1.as_ref(), e2.as_ref(), y_axis)
CoordKey(y_axis) == [r \in 1..Len(points) |-> IF y_axis THEN points[r].y ELSE points[r].x]

\* ------------------------------------------------------------------------
\* kd_tree.rs: UTMTree::new, TreeNode::new
\* A task [id, lo, hi, y_axis] is the call TreeNode::new(&mut refs[lo..hi], y_axis)
\* whose result becomes node id. rayon::join runs the two child calls of a
\* split in any order, on disjoint sub-slices of refs.
\* ------------------------------------------------------------------------
BuildTask(id, lo, hi, y_axis) == [id |-> id, lo |-> lo, hi |-> hi, y_axis |-> y_axis]

\* what built_from records of a call: its slice on entry and its axis
Built(slice, y_axis) == [refs |-> slice, y_axis |-> y_axis]

\* the reordering done by partition lost: refs is left as it was
WriteSliceSkipped(r, lo, a) == r

\* refs with refs[lo..lo+len(a)] overwritten by a
WriteSlice(r, lo, a) ==
    [n \in 1..Len(r) |-> IF n > lo /\ n <= lo + Len(a) THEN a[n - lo] ELSE r[n]]

\* match refs.len() { 0 => None, ...
TreeNodeNewEmpty(t) ==
    /\ k_pc = "build"
    /\ t \in btasks
    /\ t.hi - t.lo = 0
    /\ btasks' = btasks \ {t}
    /\ UNCHANGED <<points, refs, nodes, built_from, query, max_dist, best, stack, knn, visited,
                   k_pc>>

\* 1 => a leaf holding refs[0]
TreeNodeNewLeaf(t) ==
    /\ k_pc = "build"
    /\ t \in btasks
    /\ t.hi - t.lo = 1
    /\ nodes' = (t.id :> At(refs, t.lo)) @@ nodes
    /\ built_from' = (t.id :> Built(Slice(refs, t.lo, t.hi), t.y_axis)) @@ built_from
    /\ btasks' = btasks \ {t}
    /\ UNCHANGED <<points, refs, query, max_dist, best, stack, knn, visited, k_pc>>

\* 2 => parent refs[0] with the child refs[1] on the left iff
\* coords_lt(child, parent, y_axis)
TreeNodeNewPair(t) ==
    /\ k_pc = "build"
    /\ t \in btasks
    /\ t.hi - t.lo = 2
    /\ LET parent == At(refs, t.lo)
           child == At(refs, t.lo + 1)
           cid == IF coords_lt(points[child], points[parent], t.y_axis)
                  THEN 2 * t.id ELSE 2 * t.id + 1
       IN  /\ nodes' = (t.id :> parent) @@ (cid :> child) @@ nodes
           /\ built_from' = (t.id :> Built(Slice(refs, t.lo, t.hi), t.y_axis)) @@
                          (cid :> Built(<<child>>, ~t.y_axis)) @@ built_from
    /\ btasks' = btasks \ {t}
    /\ UNCHANGED <<points, refs, query, max_dist, best, stack, knn, visited, k_pc>>

\* _ => partition, then rayon::join of TreeNode::new(left, !y_axis) and
\* TreeNode::new(right, !y_axis); the node keeps *pivot
TreeNodeNewSplit(t) ==
    /\ k_pc = "build"
    /\ t \in btasks
    /\ t.hi - t.lo >= 3
    /\ LET P == Partition(Slice(refs, t.lo, t.hi), CoordKey(t.y_axis)) IN
       IF P.status = "panic"
       THEN /\ k_pc' = "panic"
            /\ UNCHANGED <<refs, nodes, built_from, btasks>>
       ELSE /\ refs' = WriteSlice(refs, t.lo, P.arr)
            /\ nodes' = (t.id :> P.pivot) @@ nodes
            /\ built_from' = (t.id :> Built(Slice(refs, t.lo, t.hi), t.y_axis)) @@ built_from
            /\ btasks' = (btasks \ {t}) \cup
                   {BuildTask(2 * t.id, t.lo, t.lo + Len(P.lt), ~t.y_axis),
                    BuildTask(2 * t.id + 1, t.lo + Len(P.lt), t.hi - 1, ~t.y_axis)}
            /\ UNCHANGED k_pc
    /\ UNCHANGED <<points, query, max_dist, best, stack, knn, visited>>

\* ------------------------------------------------------------------------
\* kd_tree.rs: UTMTree::nearest_neighbors, collect_nearest,
\* TreeNode::nearest_neighbors
\* A stack frame [id, y_axis, left, pc] is one call of
\* TreeNode::nearest_neighbors on node id:
\*   "enter"  before the downwards recursion
\*   "visit"  after it, before the insertion and the far-side test
\*   "return" after the far-side recursion
\* ------------------------------------------------------------------------
None == 0

\* (None, f64::INFINITY)
EmptySlot == [rec |-> None, d |-> INFINITY]

Frame(id, y_axis) == [id |-> id, y_axis |-> y_axis, left |-> FALSE, pc |-> "enter"]

Top == stack[Len(stack)]

Pop(st) == SubSeq(st, 1, Len(st) - 1)

\* the binary search with x.1 < d as its test: the index before the equal slots
RECURSIVE BinarySearchBefore(_, _, _, _)
BinarySearchBefore(b, d, lo, hi) ==
    IF lo >= hi THEN lo
    ELSE LET mid == lo + ((hi - lo) \div 2) IN
         IF At(b, mid).d < d
         THEN BinarySearchBefore(b, d, mid + 1, hi)
         ELSE BinarySearchBefore(b, d, lo, mid)

\* best.binary_search_by(|&x| if x.1 <= d { Less } else { Greater }).unwrap_err()
RECURSIVE BinarySearch(_, _, _, _)
BinarySearch(b, d, lo, hi) ==
    IF lo >= hi THEN lo
    ELSE LET mid == lo + ((hi - lo) \div 2) IN
         IF At(b, mid).d <= d
         THEN BinarySearch(b, d, mid + 1, hi)
         ELSE BinarySearch(b, d, lo, mid)

\* the candidate written over the last slot, nothing shifted
ShiftInLast(b, idx, slot) == [b EXCEPT ![Len(b)] = slot]

\* let mut t = (Some(self.data), d);
\* for slot in &mut best[idx..] { mem::swap(&mut t, slot); }
ShiftIn(b, idx, slot) ==
    [n \in 1..Len(b) |-> IF n < idx + 1 THEN b[n]
                         ELSE IF n = idx + 1 THEN slot
                         ELSE b[n - 1]]

\* the upwards step: attempt to insert record rec at squared distance d
\* (md2 is the squared threshold)
Insert(b, rec, d, md2) ==
    IF d < md2
    THEN LET idx == BinarySearch(b, d, 0, Len(b)) IN
         IF idx < Len(b) THEN ShiftIn(b, idx, [rec |-> rec, d |-> d]) ELSE b
    ELSE b

\* a far-side test that looks at the nearest neighbour found, not the worst
VisitFarFirst(sep_dist, b, md2) ==
    sep_dist < md2 /\ sep_dist <= b[1].d

\* sep_dist < max_dist && sep_dist <= best.last().unwrap().1
VisitFar(sep_dist, b, md2) ==
    sep_dist < md2 /\ sep_dist <= b[Len(b)].d

\* out.retain(|nn| nn.0.is_some())
Retain(b) == SelectSeq(b, LAMBDA s : s.rec # None)

\* the out slice left as the caller passed it
ResetOutSkipped(out) == out

\* for i in out.iter_mut() { *i = (None, f64::INFINITY); }
ResetOut(out) == [n \in DOMAIN out |-> EmptySlot]

\* TreeNode::nearest_neighbors as a function: the buffer after the call on
\* node id with the buffer b (q the query point, md2 the squared threshold)
RECURSIVE TreeNodeNearestNeighbors(_, _, _, _, _)
TreeNodeNearestNeighbors(id, q, b, y_axis, md2) ==
    LET data == points[nodes[id]]
        left == coords_lt(q, data, y_axis)
        near == IF left THEN 2 * id ELSE 2 * id + 1
        far == IF left THEN 2 * id + 1 ELSE 2 * id
        b0 == IF near \in DOMAIN nodes
              THEN TreeNodeNearestNeighbors(near, q, b, ~y_axis, md2) ELSE b
        b1 == Insert(b0, nodes[id], squared_dist(data, q), md2)
        sep_dist == IF y_axis THEN Powi2(q.y - data.y) ELSE Powi2(q.x - data.x)
    IN  IF far \in DOMAIN nodes /\ VisitFar(sep_dist, b1, md2)
        THEN TreeNodeNearestNeighbors(far, q, b1, ~y_axis, md2)
        ELSE b1

\* UTMTree::nearest_neighbors(query, out, max_dist): out is the slice of the
\* caller, whatever it holds (collect_nearest passes k fresh slots). The
\* traversal being over at once when out is empty or the tree is, the
\* filled slots are returned then
NearestNeighbors(q, out, md) ==
    /\ k_pc = "build"
    /\ btasks = {}
    /\ query' = q
    /\ max_dist' = md
    /\ best' = ResetOut(out)
    /\ IF Len(out) = 0 \/ 1 \notin DOMAIN nodes
       THEN /\ stack' = <<>>
            /\ visited' = <<>>
            /\ knn' = Retain(ResetOut(out))
            /\ k_pc' = "done"
       ELSE /\ stack' = <<Frame(1, FALSE)>>
            /\ visited' = <<1>>
            /\ knn' = <<>>
            /\ k_pc' = "query"
    /\ UNCHANGED <<points, refs, btasks, nodes, built_from>>

\* let left = coords_lt(&query, self.data.as_ref(), y_axis);
\* then the recursion into the near child, if there is one
NNEnter ==
    /\ k_pc = "query"
    /\ stack # <<>>
    /\ Top.pc = "enter"
    /\ LET f == Top
           left == coords_lt(query, points[nodes[f.id]], f.y_axis)
           near == IF left THEN 2 * f.id ELSE 2 * f.id + 1
           f1 == [f EXCEPT !.left = left, !.pc = "visit"]
       IN  /\ stack' = IF near \in DOMAIN nodes
                       THEN Append(Append(Pop(stack), f1), Frame(near, ~f.y_axis))
                       ELSE Append(Pop(stack), f1)
           /\ visited' = IF near \in DOMAIN nodes THEN Append(visited, near) ELSE visited
    /\ UNCHANGED <<points, refs, btasks, nodes, built_from, query, max_dist, best, knn, k_pc>>

\* the insertion of this node, then the far-side test and recursion
NNVisit ==
    /\ k_pc = "query"
    /\ stack # <<>>
    /\ Top.pc = "visit"
    /\ LET f == Top
           data == points[nodes[f.id]]
           md2 == Powi2(max_dist)
           d == squared_dist(data, query)
           b1 == Insert(best, nodes[f.id], d, md2)
           far == IF f.left THEN 2 * f.id + 1 ELSE 2 * f.id
           sep_dist == IF f.y_axis THEN Powi2(query.y - data.y) ELSE Powi2(query.x - data.x)
       IN  /\ best' = b1
           /\ stack' = IF far \in DOMAIN nodes /\ VisitFar(sep_dist, b1, md2)
                       THEN Append(Append(Pop(stack), [f EXCEPT !.pc = "return"]),
                                   Frame(far, ~f.y_axis))
                       ELSE Pop(stack)
           /\ visited' = IF far \in DOMAIN nodes /\ VisitFar(sep_dist, b1, md2)
                         THEN Append(visited, far) ELSE visited
    /\ UNCHANGED <<points, refs, btasks, nodes, built_from, query, max_dist, knn, k_pc>>

\* return from the far-side recursion
NNReturn ==
    /\ k_pc = "query"
    /\ stack # <<>>
    /\ Top.pc = "return"
    /\ stack' = Pop(stack)
    /\ UNCHANGED <<points, refs, btasks, nodes, built_from, query, max_dist, best, knn, visited,
                   k_pc>>

\* the root call has returned: collect_nearest trims the buffer and returns it
CollectNearestReturn ==
    /\ k_pc = "query"
    /\ stack = <<>>
    /\ knn' = Retain(best)
    /\ k_pc' = "done"
    /\ UNCHANGED <<points, refs, btasks, nodes, built_from, query, max_dist, best, stack,
                   visited>>

\* ------------------------------------------------------------------------
\* SpecTree: UTMTree::new on every record slice of a bounded set, then one
\* collect_nearest query
\* ------------------------------------------------------------------------
PtSet == {[x |-> 0, y |-> 2], [x |-> 1, y |-> 0], [x |-> 2, y |-> 2], [x |-> 3, y |-> 1]}

QuerySet == {[x |-> 0, y |-> 0], [x |-> 1, y |-> 1], [x |-> 2, y |-> 2]}

MaxDists == {-2, 0, 1, INFINITY}

\* what a slot of the caller's slice may hold before the call: nothing, or
\* the record and distance a former query left there
SlotSet == {EmptySlot, [rec |-> 1, d |-> 0]}

Buffers == UNION {[1..k -> SlotSet] : k \in 0..MaxK}

PointSeqs == UNION {[1..n -> PtSet] : n \in 0..MaxPts}

\* UTMTree::new(data): refs = data.iter().collect(); TreeNode::new(&mut refs, false)
InitTree ==
    /\ points \in PointSeqs
    /\ refs = [n \in 1..Len(points) |-> n]
    /\ btasks = {BuildTask(1, 0, Len(points), FALSE)}
    /\ nodes = <<>>
    /\ built_from = <<>>
    /\ query = [x |-> 0, y |-> 0]
    /\ max_dist = 0
    /\ best = <<>>
    /\ stack = <<>>
    /\ knn = <<>>
    /\ visited = <<>>
    /\ k_pc = "build"
    /\ PartitionIdle
    /\ QuadIdle
    /\ ZIdle
    /\ FixedIdle

NextTree ==
    \/ \E t \in btasks : TreeNodeNewEmpty(t) /\ UNCHANGED <<pvars, qvars, zvars, fvars>>
    \/ \E t \in btasks : TreeNodeNewLeaf(t) /\ UNCHANGED <<pvars, qvars, zvars, fvars>>
    \/ \E t \in btasks : TreeNodeNewPair(t) /\ UNCHANGED <<pvars, qvars, zvars, fvars>>
    \/ \E t \in btasks : TreeNodeNewSplit(t) /\ UNCHANGED <<pvars, qvars, zvars, fvars>>
    \/ \E q \in QuerySet, out \in Buffers, md \in MaxDists : NearestNeighbors(q, out, md)
          /\ UNCHANGED <<pvars, qvars, zvars, fvars>>
    \/ NNEnter /\ UNCHANGED <<pvars, qvars, zvars, fvars>>
    \/ NNVisit /\ UNCHANGED <<pvars, qvars, zvars, fvars>>
    \/ NNReturn /\ UNCHANGED <<pvars, qvars, zvars, fvars>>
    \/ CollectNearestReturn /\ UNCHANGED <<pvars, qvars, zvars, fvars>>

SpecTree == InitTree /\ [][NextTree]_vars

\* ------------------------------------------------------------------------
\* unit_fixed.rs, z_order.rs, geo.rs: fixed point, Z-values, regions
\* Reals are exact: a coordinate c stands for c / Unit. Positions and
\* corners are multiples of a quarter, so that the centers of the regions
\* of the first MaxDepth levels are integers.
\* ------------------------------------------------------------------------
\* bits of a ZValue (64 in the source)
ZBits == 2 * Bits

\* deepest process_region call the stack has room for
MaxDepth == Bits + 1

Unit == 2 ^ (MaxDepth + 2)

\* u32::MAX of a fixed point with one bit less
FixedMaxHalf == (2 ^ (Bits - 1)) - 1

\* u32::MAX, and the factor 4294967295.0
FixedMax == (2 ^ Bits) - 1

\* UnitFixedPoint::from without the clipping of x >= 1.0, the product
\* wrapping into the u32
UnitFixedPointFromWrap(num, den) ==
    IF num <= 0 THEN 0
    ELSE ((num * FixedMax) \div den) % (FixedMax + 1)

\* UnitFixedPoint::from(x) for the real x = num / den, den > 0
\* (x as u32 truncates towards zero)
UnitFixedPointFrom(num, den) ==
    IF num <= 0 THEN 0
    ELSE IF num >= den THEN FixedMax
    ELSE (num * FixedMax) \div den

\* a | b
RECURSIVE BitOr(_, _)
BitOr(a, b) ==
    IF a = 0 THEN b
    ELSE IF b = 0 THEN a
    ELSE (IF a % 2 = 1 \/ b % 2 = 1 THEN 1 ELSE 0) + 2 * BitOr(a \div 2, b \div 2)

\* v << n
Shl(v, n) == IF v = 0 THEN 0 ELSE v * (2 ^ n)

\* v >> n
Shr(v, n) == v \div (2 ^ n)

\* MORTON_TABLE
MORTON_TABLE == <<
    0, 1, 4, 5, 16, 17, 20, 21, 64, 65, 68, 69, 80, 81, 84, 85,
    256, 257, 260, 261, 272, 273, 276, 277, 320, 321, 324, 325, 336, 337, 340, 341,
    1024, 1025, 1028, 1029, 1040, 1041, 1044, 1045, 1088, 1089, 1092, 1093, 1104, 1105, 1108, 1109,
    1280, 1281, 1284, 1285, 1296, 1297, 1300, 1301, 1344, 1345, 1348, 1349, 1360, 1361, 1364, 1365,
    4096, 4097, 4100, 4101, 4112, 4113, 4116, 4117, 4160, 4161, 4164, 4165, 4176, 4177, 4180, 4181,
    4352, 4353, 4356, 4357, 4368, 4369, 4372, 4373, 4416, 4417, 4420, 4421, 4432, 4433, 4436, 4437,
    5120, 5121, 5124, 5125, 5136, 5137, 5140, 5141, 5184, 5185, 5188, 5189, 5200, 5201, 5204, 5205,
    5376, 5377, 5380, 5381, 5392, 5393, 5396, 5397, 5440, 5441, 5444, 5445, 5456, 5457, 5460, 5461,
    16384, 16385, 16388, 16389, 16400, 16401, 16404, 16405, 16448, 16449, 16452, 16453, 16464, 16465, 16468, 16469,
    16640, 16641, 16644, 16645, 16656, 16657, 16660, 16661, 16704, 16705, 16708, 16709, 16720, 16721, 16724, 16725,
    17408, 17409, 17412, 17413, 17424, 17425, 17428, 17429, 17472, 17473, 17476, 17477, 17488, 17489, 17492, 17493,
    17664, 17665, 17668, 17669, 17680, 17681, 17684, 17685, 17728, 17729, 17732, 17733, 17744, 17745, 17748, 17749,
    20480, 20481, 20484, 20485, 20496, 20497, 20500, 20501, 20544, 20545, 20548, 20549, 20560, 20561, 20564, 20565,
    20736, 20737, 20740, 20741, 20752, 20753, 20756, 20757, 20800, 20801, 20804, 20805, 20816, 20817, 20820, 20821,
    21504, 21505, 21508, 21509, 21520, 21521, 21524, 21525, 21568, 21569, 21572, 21573, 21584, 21585, 21588, 21589,
    21760, 21761, 21764, 21765, 21776, 21777, 21780, 21781, 21824, 21825, 21828, 21829, 21840, 21841, 21844, 21845>>

\* ------------------------------------------------------------------------
\* Machine words. A u32 or u64 is the sequence of its bits, bit k of the
\* word at index k + 1, so that all 64 bits of a ZValue are kept.
\* ------------------------------------------------------------------------
\* v as u32 / v as u64, for a number v below 2^30: the word of width w
Word(v, w) == [k \in 1..w |-> IF k > 30 THEN 0 ELSE (v \div (2 ^ (k - 1))) % 2]

\* the number a word stands for (used where it is below 2^31)
RECURSIVE WordValue(_)
WordValue(a) == IF a = <<>> THEN 0 ELSE Head(a) + 2 * WordValue(Tail(a))

\* a | b
WordOr(a, b) == [k \in DOMAIN a |-> IF a[k] = 1 \/ b[k] = 1 THEN 1 ELSE 0]

\* a & b
WordAnd(a, b) == [k \in DOMAIN a |-> IF a[k] = 1 /\ b[k] = 1 THEN 1 ELSE 0]

\* a << n, n below the width: the bits shifted out at the top are lost
WordShl(a, n) == [k \in DOMAIN a |-> IF k > n THEN a[k - n] ELSE 0]

\* a.cmp(&b) of two words of one width, decided at the highest differing bit
RECURSIVE WordCmpFrom(_, _, _)
WordCmpFrom(a, b, k) ==
    IF k = 0 THEN "Equal"
    ELSE IF a[k] < b[k] THEN "Less"
    ELSE IF a[k] > b[k] THEN "Greater"
    ELSE WordCmpFrom(a, b, k - 1)

WordCmp(a, b) == WordCmpFrom(a, b, Len(a))

\* x.to_le_bytes() of a u32 word: the four bytes as numbers, lowest first
to_le_bytes(x) == [i \in 1..4 |-> WordValue(SubSeq(x, 8 * (i - 1) + 1, 8 * i))]

\* interleave_8 with the two table entries the other way round
interleave_8YX(x, y) ==
    BitOr(At(MORTON_TABLE, y), Shl(At(MORTON_TABLE, x), 1) % 65536)

\* interleave_8; the shift is a u16 shift, the result is widened by the caller
interleave_8(x, y) ==
    BitOr(At(MORTON_TABLE, x), Shl(At(MORTON_TABLE, y), 1) % 65536)

X_MASK == [k \in 1..64 |-> IF k % 2 = 1 THEN 1 ELSE 0]

Y_MASK == [k \in 1..64 |-> IF k % 2 = 0 THEN 1 ELSE 0]

\* ZValue::new with the third pair of bytes shifted by 16 instead of 32
ZValueNewShift16(x, y) ==
    LET xb == to_le_bytes(x)
        yb == to_le_bytes(y)
    IN  WordOr(WordOr(Word(interleave_8(xb[1], yb[1]), 64),
                      WordShl(Word(interleave_8(xb[2], yb[2]), 64), 16)),
               WordOr(WordShl(Word(interleave_8(xb[3], yb[3]), 64), 16),
                      WordShl(Word(interleave_8(xb[4], yb[4]), 64), 48)))

\* ZValue::new(x, y) of two u32 words: a u64 word
ZValueNew(x, y) ==
    LET xb == to_le_bytes(x)
        yb == to_le_bytes(y)
    IN  WordOr(WordOr(Word(interleave_8(xb[1], yb[1]), 64),
                      WordShl(Word(interleave_8(xb[2], yb[2]), 64), 16)),
               WordOr(WordShl(Word(interleave_8(xb[3], yb[3]), 64), 32),
                      WordShl(Word(interleave_8(xb[4], yb[4]), 64), 48)))

\* x_bits reading the bits of Y_MASK
x_bitsOfY(z) == WordAnd(z, Y_MASK)

\* ZValue::x_bits
x_bits(z) == WordAnd(z, X_MASK)

\* ZValue::y_bits
y_bits(z) == WordAnd(z, Y_MASK)

\* ZValue::cmp_x
cmp_x(z, other) == WordCmp(x_bits(z), x_bits(other))

\* ZValue::cmp_y
cmp_y(z, other) == WordCmp(y_bits(z), y_bits(other))

\* ------------------------------------------------------------------------
\* SpecZValue: two points (u32, u32) are turned into ZValues, which are then
\* compared (z_order.rs tests quickcheck_x_cmp, quickcheck_y_cmp,
\* quickcheck_z_cmp)
\* ------------------------------------------------------------------------
\* the u32 with the bytes b (lowest first), as a word
WordOfBytes(b) == [k \in 1..(8 * Len(b)) |-> (b[((k - 1) \div 8) + 1] \div (2 ^ ((k - 1) % 8))) % 2]

\* the u32 values the points are drawn from:
\* 0, 1, 2, 0x80, 0x100, 0x1_0000, 0x100_0000, 0x5555_5555, 0xAAAA_AAAA,
\* 0x7FFF_FFFF, 0x8000_0000, 0xFFFF_FFFF
U32Set ==
    {WordOfBytes(b) : b \in {<<0, 0, 0, 0>>, <<1, 0, 0, 0>>, <<2, 0, 0, 0>>, <<128, 0, 0, 0>>,
                              <<0, 1, 0, 0>>, <<0, 0, 1, 0>>, <<0, 0, 0, 1>>,
                              <<85, 85, 85, 85>>, <<170, 170, 170, 170>>,
                              <<255, 255, 255, 127>>, <<0, 0, 0, 128>>,
                              <<255, 255, 255, 255>>}}

InitZValue ==
    /\ z_p1 \in [x : U32Set, y : U32Set]
    /\ z_p2 \in [x : U32Set, y : U32Set]
    /\ z_out = <<>>
    /\ z_pc = "encode"
    /\ PartitionIdle
    /\ TreeIdle
    /\ QuadIdle
    /\ FixedIdle

\* let z1: ZValue = p1.into(); let z2: ZValue = p2.into();
ZValueFrom ==
    /\ z_pc = "encode"
    /\ z_out' = [z1 |-> ZValueNew(z_p1.x, z_p1.y), z2 |-> ZValueNew(z_p2.x, z_p2.y)]
    /\ z_pc' = "compare"
    /\ UNCHANGED <<z_p1, z_p2>>

\* z1.cmp(&z2), z1.cmp_x(z2), z1.cmp_y(z2)
ZValueCmp ==
    /\ z_pc = "compare"
    /\ z_out' = [z1 |-> z_out.z1, z2 |-> z_out.z2,
                 cmp |-> WordCmp(z_out.z1, z_out.z2),
                 cmp_x |-> cmp_x(z_out.z1, z_out.z2),
                 cmp_y |-> cmp_y(z_out.z1, z_out.z2)]
    /\ z_pc' = "done"
    /\ UNCHANGED <<z_p1, z_p2>>

NextZValue ==
    \/ ZValueFrom /\ UNCHANGED <<pvars, kvars, qvars, fvars>>
    \/ ZValueCmp /\ UNCHANGED <<pvars, kvars, qvars, fvars>>

SpecZValue == InitZValue /\ [][NextZValue]_vars

\* ------------------------------------------------------------------------
\* SpecFixed: two f64 are converted to UnitFixedPoint, one after the other.
\* A finite f64 is the exact rational v / FracDen; the infinities are
\* -INFINITY and INFINITY; NaN is a value of its own.
\* ------------------------------------------------------------------------
FracDen == 2 ^ (Bits + 1)

F64(v) == [nan |-> FALSE, v |-> v]

NaN == [nan |-> TRUE, v |-> 0]

\* from -1/2 to 3/2 in steps of 1 / FracDen, the infinities and NaN
F64Set ==
    {F64(v) : v \in (-(FracDen \div 2))..(FracDen + FracDen \div 2)}
        \cup {F64(-INFINITY), F64(INFINITY), NaN}

InitFixed ==
    /\ f_in \in [1..2 -> F64Set]
    /\ f_out = <<>>
    /\ f_pc = "convert"
    /\ PartitionIdle
    /\ TreeIdle
    /\ QuadIdle
    /\ ZIdle

\* if x.is_nan() { panic!("cannot convert NaN to UnitFixedPoint") }
FixedFromNaN ==
    /\ f_pc = "convert"
    /\ f_in # <<>>
    /\ Head(f_in).nan
    /\ f_pc' = "panic"
    /\ UNCHANGED <<f_in, f_out>>

\* let n: UnitFixedPoint = x.into();
FixedFrom ==
    /\ f_pc = "convert"
    /\ f_in # <<>>
    /\ ~Head(f_in).nan
    /\ f_out' = Append(f_out, [x |-> Head(f_in).v,
                               n |-> UnitFixedPointFrom(Head(f_in).v, FracDen)])
    /\ f_in' = Tail(f_in)
    /\ f_pc' = IF Tail(f_in) = <<>> THEN "done" ELSE "convert"

NextFixed ==
    \/ FixedFromNaN /\ UNCHANGED <<pvars, kvars, qvars, zvars>>
    \/ FixedFrom /\ UNCHANGED <<pvars, kvars, qvars, zvars>>

SpecFixed == InitFixed /\ [][NextFixed]_vars

\* Region::new(east, west, north, south)
RegionNew(east, west, north, south) ==
    [east |-> east, west |-> west, north |-> north, south |-> south]

\* Region::center
Center(r) == [x |-> (r.east + r.west) \div 2, y |-> (r.north + r.south) \div 2]

\* Region::contains
Contains(r, p) == ~((p.x < r.west) \/ (p.x > r.east) \/ (p.y < r.south) \/ (p.y > r.north))

\* Region::intersects
Intersects(a, b) ==
    (a.west < b.east) /\ (a.east > b.west) /\ (a.south < b.north) /\ (a.north > b.south)

\* UTMCoordinates::normalize, then the two UnitFixedPoint conversions;
\* some = FALSE is None (the point falls outside the region)
Normalize(p, r) ==
    LET xn == p.x - r.west
        xd == r.east - r.west
        yn == p.y - r.south
        yd == r.north - r.south
    IN  IF xn < 0 \/ xn > xd \/ yn < 0 \/ yn > yd
        THEN [some |-> FALSE, x |-> 0, y |-> 0]
        ELSE [some |-> TRUE, x |-> UnitFixedPointFrom(xn, xd), y |-> UnitFixedPointFrom(yn, yd)]

\* UTMCoordinates::z_value
z_value(p, r) ==
    LET n == Normalize(p, r)
    IN  IF n.some
        THEN [some |-> TRUE, z |-> WordValue(ZValueNew(Word(n.x, 32), Word(n.y, 32)))]
        ELSE [some |-> FALSE, z |-> 0]

\* ------------------------------------------------------------------------
\* quadtree.rs: the enclosing region
\* ------------------------------------------------------------------------
reduce_region_point(a, b) ==
    LET a1 == IF b.x < a.west THEN [a EXCEPT !.west = b.x] ELSE a
        a2 == IF b.x > a1.east THEN [a1 EXCEPT !.east = b.x] ELSE a1
        a3 == IF b.y > a2.north THEN [a2 EXCEPT !.north = b.y] ELSE a2
        a4 == IF b.y < a3.south THEN [a3 EXCEPT !.south = b.y] ELSE a3
    IN  a4

reduce_regions(a, b) ==
    LET a1 == IF b.west < a.west THEN [a EXCEPT !.west = b.west] ELSE a
        a2 == IF b.east > a1.east THEN [a1 EXCEPT !.east = b.east] ELSE a1
        a3 == IF b.south < a2.south THEN [a2 EXCEPT !.south = b.south] ELSE a2
        a4 == IF b.north > a3.north THEN [a3 EXCEPT !.north = b.north] ELSE a3
    IN  a4

\* the whole plane instead of the empty region
min_regionWhole == RegionNew(INFINITY, -INFINITY, INFINITY, -INFINITY)

min_region == RegionNew(-INFINITY, INFINITY, -INFINITY, INFINITY)

\* buildings.par_iter().fold(min_region, reduce_regions(r, bldg.bbox())).reduce(..)
\* over the first n buildings (min and max do not depend on the grouping)
RECURSIVE BuildingsBBox(_, _)
BuildingsBBox(bs, n) ==
    IF n = 0 THEN min_region ELSE reduce_regions(BuildingsBBox(bs, n - 1), bs[n].bbox)

\* agents.par_iter().fold(min_region, reduce_region_point(r, a.position())).reduce(..)
RECURSIVE AgentsBBox(_, _)
AgentsBBox(ags, n) ==
    IF n = 0 THEN min_region ELSE reduce_region_point(AgentsBBox(ags, n - 1), ags[n])

\* ------------------------------------------------------------------------
\* quadtree.rs: find_split and the split of the agent range
\* ------------------------------------------------------------------------
\* arr.binary_search_by_key(&query, |t| t.1) on arr[lo..hi]:
\* [ok |-> found, idx |-> the match or the insertion point]
RECURSIVE BinarySearchByKey(_, _, _, _)
BinarySearchByKey(arr, zq, lo, hi) ==
    IF lo >= hi THEN [ok |-> FALSE, idx |-> lo]
    ELSE LET mid == lo + ((hi - lo) \div 2) IN
         IF At(arr, mid).z = zq THEN [ok |-> TRUE, idx |-> mid]
         ELSE IF At(arr, mid).z < zq
         THEN BinarySearchByKey(arr, zq, mid + 1, hi)
         ELSE BinarySearchByKey(arr, zq, lo, mid)

\* .rev().skip(arr.len() - start).find(|t| t.1 < zq).map_or(0, |(i, _)| i + 1):
\* walk back from start - 1 to the first element below query
RECURSIVE WalkBack(_, _, _)
WalkBack(arr, zq, i) ==
    IF i < 0 THEN 0
    ELSE IF At(arr, i).z < zq THEN i + 1
    ELSE WalkBack(arr, zq, i - 1)

\* find_split returning the index the binary search hit, without the walk
\* back over the equal Z-values before it
find_splitAtMatch(arr, zq) ==
    LET r == BinarySearchByKey(arr, zq, 0, Len(arr))
    IN  r.idx

\* find_split(arr, query): index into arr
find_split(arr, zq) ==
    LET r == BinarySearchByKey(arr, zq, 0, Len(arr))
    IN  IF r.ok THEN WalkBack(arr, zq, r.idx - 1) ELSE r.idx

\* the three split_at calls with the SW/SE boundary searched in the whole
\* range instead of the southern part
SplitAgentsWhole(ad, lo, hi, nw_prefix, se_prefix, ne_prefix) ==
    LET all == Slice(ad, lo, hi)
        s_n == lo + find_split(all, nw_prefix)
        nw_ne == s_n + find_split(Slice(ad, s_n, hi), ne_prefix)
        sw_se == lo + find_split(all, se_prefix)
    IN  [sw |-> <<lo, sw_se>>, se |-> <<sw_se, hi>>, nw |-> <<s_n, nw_ne>>, ne |-> <<nw_ne, hi>>]

\* the three split_at calls on agent_data[lo..hi]: the [lo, hi) bounds of
\* agents_sw, agents_se, agents_nw, agents_ne
SplitAgents(ad, lo, hi, nw_prefix, se_prefix, ne_prefix) ==
    LET s_n == lo + find_split(Slice(ad, lo, hi), nw_prefix)
        nw_ne == s_n + find_split(Slice(ad, s_n, hi), ne_prefix)
        sw_se == lo + find_split(Slice(ad, lo, s_n), se_prefix)
    IN  [sw |-> <<lo, sw_se>>, se |-> <<sw_se, s_n>>, nw |-> <<s_n, nw_ne>>, ne |-> <<nw_ne, hi>>]

\* the building lists of the four quadrants (indices into bldgs, in list order)
SplitBuildingsClosed(bl, region_center) ==
    LET north(b) == bldgs[b].bbox.north >= region_center.y
        south(b) == bldgs[b].bbox.south <= region_center.y
        west(b) == bldgs[b].bbox.west <= region_center.x
        east(b) == bldgs[b].bbox.east >= region_center.x
    IN  [ne |-> SelectSeq(bl, LAMBDA b : north(b) /\ east(b)),
         nw |-> SelectSeq(bl, LAMBDA b : north(b) /\ west(b)),
         se |-> SelectSeq(bl, LAMBDA b : south(b) /\ east(b)),
         sw |-> SelectSeq(bl, LAMBDA b : south(b) /\ west(b))]

SplitBuildings(bl, region_center) ==
    LET north(b) == bldgs[b].bbox.north > region_center.y
        south(b) == bldgs[b].bbox.south < region_center.y
        west(b) == bldgs[b].bbox.west < region_center.x
        east(b) == bldgs[b].bbox.east > region_center.x
    IN  [ne |-> SelectSeq(bl, LAMBDA b : north(b) /\ east(b)),
         nw |-> SelectSeq(bl, LAMBDA b : north(b) /\ west(b)),
         se |-> SelectSeq(bl, LAMBDA b : south(b) /\ east(b)),
         sw |-> SelectSeq(bl, LAMBDA b : south(b) /\ west(b))]

\* ------------------------------------------------------------------------
\* bin/quadtree_map_closest.rs, bin/quadtree_map_weighted.rs: the mappers
\* ------------------------------------------------------------------------
\* Iterator::min_by over bl with "a is less than b" given by less: the first
\* minimum (index into bl, from n on, best so far m)
RECURSIVE MinBy(_, _, _, _)
MinBy(bl, less, m, n) ==
    IF n > Len(bl) THEN bl[m]
    ELSE IF less[bl[n]][bl[m]] THEN MinBy(bl, less, n, n + 1)
    ELSE MinBy(bl, less, m, n + 1)

\* map_to_closest: least squared distance from the centroid to the agent
map_to_closest(a, bl) ==
    LET d(b) == squared_dist(bldgs[b].centroid, agents[a])
        less == [b \in Range(bl) |-> [c \in Range(bl) |-> d(b) < d(c)]]
    IN  MinBy(bl, less, 1, 2)

\* map_weighted: least dist / (area / area_sum); for positive areas
\* dist_b / area_b < dist_c / area_c iff dist_b^2 * area_c^2 < dist_c^2 * area_b^2
map_weighted(a, bl) ==
    LET d(b) == squared_dist(bldgs[b].centroid, agents[a])
        ar(b) == bldgs[b].area
        less == [b \in Range(bl) |-> [c \in Range(bl) |->
                    d(b) * ar(c) * ar(c) < d(c) * ar(b) * ar(b)]]
    IN  MinBy(bl, less, 1, 2)

\* (*mapper)(*agent, &buildings)
Mapper(a, bl) ==
    IF mapper = "map_to_closest" THEN map_to_closest(a, bl) ELSE map_weighted(a, bl)

\* ------------------------------------------------------------------------
\* quadtree.rs: map_vehicles, process_region
\* A task [prefix, depth, region, lo, hi, bldgs, i] is one call of
\* process_region on agent_data[lo..hi] with the building list bldgs
\* (indices into the building slice); i is the position of its leaf loop.
\* rayon::join runs the four quadrant calls of a split in any order. A
\* quadrant call that gets no agent or no building returns at once without
\* reading or writing anything, so it is taken together with the split that
\* makes it; deepest keeps the depth of the deepest call made.
\* ------------------------------------------------------------------------
QTask(prefix, depth, reg, lo, hi, bl) ==
    [prefix |-> prefix, depth |-> depth, region |-> reg, lo |-> lo, hi |-> hi,
     bldgs |-> bl, i |-> lo]

\* the first panic is the one the caller sees
Panic(msg) == IF q_err = "none" THEN msg ELSE q_err

\* stage 1: the region spanned by all agents and buildings, and its validation
ComputeRegion ==
    /\ q_pc = "new"
    /\ LET buildings_bbox == BuildingsBBox(bldgs, Len(bldgs))
           agents_bbox == AgentsBBox(agents, Len(agents))
           r == reduce_regions(buildings_bbox, agents_bbox)
       IN  /\ region' = r
           /\ IF ~(r.west < r.east)
              THEN q_pc' = "panic" /\ q_err' = "invalid region east-west length"
              ELSE IF ~(r.south < r.north)
              THEN q_pc' = "panic" /\ q_err' = "invalid region north-south length"
              ELSE q_pc' = "encode" /\ q_err' = q_err
    /\ UNCHANGED <<splits, agents, bldgs, threshold, mapper, agent_data, qtasks, calls, path_end,
                   deepest, output>>

\* agent_data left in the order of the input
SortedOrdersInput(zs) == {[n \in 1..Len(zs) |-> n]}

\* the orders par_sort_unstable_by_key may leave n elements with keys zs in
SortedOrders(zs) ==
    {p \in [1..Len(zs) -> 1..Len(zs)] :
        /\ \A m, n \in 1..Len(zs) : m # n => p[m] # p[n]
        /\ \A m, n \in 1..Len(zs) : m < n => zs[p[m]] <= zs[p[n]]}

\* stage 2: (agent, z, OnceCell::new()) for every agent, sorted by Z-value;
\* then the root call of process_region
EncodeSort ==
    /\ q_pc = "encode"
    /\ LET zs == [a \in 1..Len(agents) |-> z_value(agents[a], region)] IN
       IF \E a \in 1..Len(agents) : ~zs[a].some
       THEN /\ q_pc' = "panic"
            /\ q_err' = "could not normalize agent position?"
            /\ UNCHANGED <<agent_data, qtasks, path_end>>
       ELSE /\ \E p \in SortedOrders([a \in 1..Len(agents) |-> zs[a].z]) :
                   agent_data' = [n \in 1..Len(agents) |->
                                     [agent |-> p[n], z |-> zs[p[n]].z, cell |-> 0]]
            /\ qtasks' = {QTask(0, 0, region, 0, Len(agents), [b \in 1..Len(bldgs) |-> b])}
            /\ path_end' = [a \in 1..Len(agents) |-> [b \in 1..Len(bldgs) |-> b]]
            /\ q_pc' = "process"
            /\ q_err' = q_err
    /\ UNCHANGED <<splits, agents, bldgs, threshold, mapper, region, calls, deepest, output>>

\* agents.len() == 0 || buildings.len() == 0
ReturnsAtOnce(t) == t.hi - t.lo = 0 \/ Len(t.bldgs) = 0

\* if agents.len() == 0 || buildings.len() == 0 { return; } in the root call
ProcessRegionReturn(t) ==
    /\ q_pc = "process"
    /\ t \in qtasks
    /\ ReturnsAtOnce(t)
    /\ qtasks' = qtasks \ {t}
    /\ UNCHANGED <<splits, agents, bldgs, threshold, mapper, region, agent_data, calls, path_end,
                   deepest, output, q_err, q_pc>>

IsLeaf(t) ==
    /\ ~ReturnsAtOnce(t)
    /\ (t.hi - t.lo < threshold \/ Len(t.bldgs) < threshold)

\* a leaf loop whose write replaces what the cell holds and goes on
ProcessRegionMapOverwrite(t) ==
    /\ q_pc = "process"
    /\ t \in qtasks
    /\ IsLeaf(t)
    /\ LET e == At(agent_data, t.i)
           mapping == Mapper(e.agent, t.bldgs)
       IN  /\ calls' = Append(calls, [agent |-> e.agent, bldgs |-> t.bldgs, ret |-> mapping])
           /\ agent_data' = [agent_data EXCEPT ![t.i + 1].cell = mapping]
           /\ qtasks' = IF t.i + 1 = t.hi
                        THEN qtasks \ {t}
                        ELSE (qtasks \ {t}) \cup {[t EXCEPT !.i = t.i + 1]}
           /\ UNCHANGED q_err
    /\ UNCHANGED <<splits, agents, bldgs, threshold, mapper, region, path_end, deepest, output, q_pc>>

\* one round of the leaf loop: the mapper is called for the next agent and
\* its result put in the agent's cell; set() on a filled cell fails and the
\* expect panics, the cell keeping its value
ProcessRegionMap(t) ==
    /\ q_pc = "process"
    /\ t \in qtasks
    /\ IsLeaf(t)
    /\ LET e == At(agent_data, t.i)
           mapping == Mapper(e.agent, t.bldgs)
       IN  /\ calls' = Append(calls, [agent |-> e.agent, bldgs |-> t.bldgs, ret |-> mapping])
           /\ IF e.cell # 0
              THEN /\ q_err' = Panic("could not set agent mapping")
                   /\ qtasks' = qtasks \ {t}
                   /\ UNCHANGED agent_data
              ELSE /\ agent_data' = [agent_data EXCEPT ![t.i + 1].cell = mapping]
                   /\ qtasks' = IF t.i + 1 = t.hi
                                THEN qtasks \ {t}
                                ELSE (qtasks \ {t}) \cup {[t EXCEPT !.i = t.i + 1]}
                   /\ UNCHANGED q_err
    /\ UNCHANGED <<splits, agents, bldgs, threshold, mapper, region, path_end, deepest, output, q_pc>>

MustSplit(t) ==
    /\ ~ReturnsAtOnce(t)
    /\ ~(t.hi - t.lo < threshold \/ Len(t.bldgs) < threshold)

\* 0x4000_0000_0000_0000 >> (2 * depth); without overflow checks the shift
\* amount is taken modulo the width
x_bit(depth) == Shr(2 ^ (ZBits - 2), (2 * depth) % ZBits)

\* 0x8000_0000_0000_0000 >> (2 * depth)
y_bit(depth) == Shr(2 ^ (ZBits - 1), (2 * depth) % ZBits)

\* path_end after the agents of agent_data[lo..hi] were handed the list bl
Handed(pe, lo, hi, bl) ==
    [a \in DOMAIN pe |->
        IF \E n \in lo..(hi - 1) : At(agent_data, n).agent = a THEN bl ELSE pe[a]]

\* the split into quadrants and the four recursive calls. A build without
\* overflow checks gets here at any depth; one with them only while
\* 2 * depth is less than the width (see ProcessRegionShiftOverflow)
ProcessRegionSplit(t) ==
    /\ q_pc = "process"
    /\ t \in qtasks
    /\ MustSplit(t)
    /\ t.depth < MaxDepth
    /\ LET p == t.prefix
           nw_prefix == BitOr(p, y_bit(t.depth))
           se_prefix == BitOr(p, x_bit(t.depth))
           ne_prefix == BitOr(BitOr(p, y_bit(t.depth)), x_bit(t.depth))
           ag == SplitAgents(agent_data, t.lo, t.hi, nw_prefix, se_prefix, ne_prefix)
           region_center == Center(t.region)
           ne == RegionNew(t.region.east, region_center.x, t.region.north, region_center.y)
           nw == RegionNew(region_center.x, t.region.west, t.region.north, region_center.y)
           se == RegionNew(t.region.east, region_center.x, region_center.y, t.region.south)
           sw == RegionNew(region_center.x, t.region.west, region_center.y, t.region.south)
           bl == SplitBuildings(t.bldgs, region_center)
           quadrants == {QTask(nw_prefix, t.depth + 1, nw, ag.nw[1], ag.nw[2], bl.nw),
                         QTask(ne_prefix, t.depth + 1, ne, ag.ne[1], ag.ne[2], bl.ne),
                         QTask(p, t.depth + 1, sw, ag.sw[1], ag.sw[2], bl.sw),
                         QTask(se_prefix, t.depth + 1, se, ag.se[1], ag.se[2], bl.se)}
       IN  /\ qtasks' = (qtasks \ {t}) \cup {c \in quadrants : ~ReturnsAtOnce(c)}
           /\ deepest' = IF t.depth + 1 > deepest THEN t.depth + 1 ELSE deepest
           /\ splits' = splits \cup {[call |-> t, agents |-> ag, bldgs |-> bl,
                                      region |-> [sw |-> sw, se |-> se, nw |-> nw, ne |-> ne]]}
           /\ path_end' = Handed(Handed(Handed(Handed(path_end,
                              ag.nw[1], ag.nw[2], bl.nw), ag.ne[1], ag.ne[2], bl.ne),
                              ag.sw[1], ag.sw[2], bl.sw), ag.se[1], ag.se[2], bl.se)
    /\ UNCHANGED <<agents, bldgs, threshold, mapper, region, agent_data, calls, output,
                   q_err, q_pc>>

\* with overflow checks, the shift by 2 * depth >= 64 panics
\* ("attempt to shift right with overflow")
ProcessRegionShiftOverflow(t) ==
    /\ q_pc = "process"
    /\ t \in qtasks
    /\ MustSplit(t)
    /\ 2 * t.depth >= ZBits
    /\ q_err' = Panic("attempt to shift right with overflow")
    /\ qtasks' = qtasks \ {t}
    /\ UNCHANGED <<splits, agents, bldgs, threshold, mapper, region, agent_data, calls, path_end,
                   deepest, output, q_pc>>

\* a recursion that is still splitting at MaxDepth has run out of stack
ProcessRegionStackOverflow(t) ==
    /\ q_pc = "process"
    /\ t \in qtasks
    /\ MustSplit(t)
    /\ t.depth >= MaxDepth
    /\ q_err' = Panic("stack overflow")
    /\ qtasks' = qtasks \ {t}
    /\ UNCHANGED <<splits, agents, bldgs, threshold, mapper, region, agent_data, calls, path_end,
                   deepest, output, q_pc>>

\* agent_data.into_iter().filter_map(..) with the pairs numbered by position
HarvestByPosition(ad) ==
    LET f == SelectSeq(ad, LAMBDA e : e.cell # 0)
    IN  [n \in 1..Len(f) |-> [agent |-> n, bldg |-> f[n].cell]]

\* agent_data.into_iter().filter_map(|(agent, _, cell)| cell.get().map(|&bldg| (agent, bldg)))
HarvestPairs(ad) ==
    LET f == SelectSeq(ad, LAMBDA e : e.cell # 0)
    IN  [n \in 1..Len(f) |-> [agent |-> f[n].agent, bldg |-> f[n].cell]]

\* the four recursive calls of a split, in the order nw, ne, sw, se of the
\* two nested rayon::join
QuadrantCalls(t) ==
    LET p == t.prefix
        nw_prefix == BitOr(p, y_bit(t.depth))
        se_prefix == BitOr(p, x_bit(t.depth))
        ne_prefix == BitOr(BitOr(p, y_bit(t.depth)), x_bit(t.depth))
        ag == SplitAgents(agent_data, t.lo, t.hi, nw_prefix, se_prefix, ne_prefix)
        region_center == Center(t.region)
        ne == RegionNew(t.region.east, region_center.x, t.region.north, region_center.y)
        nw == RegionNew(region_center.x, t.region.west, t.region.north, region_center.y)
        se == RegionNew(t.region.east, region_center.x, region_center.y, t.region.south)
        sw == RegionNew(region_center.x, t.region.west, region_center.y, t.region.south)
        bl == SplitBuildings(t.bldgs, region_center)
    IN  <<QTask(nw_prefix, t.depth + 1, nw, ag.nw[1], ag.nw[2], bl.nw),
          QTask(ne_prefix, t.depth + 1, ne, ag.ne[1], ag.ne[2], bl.ne),
          QTask(p, t.depth + 1, sw, ag.sw[1], ag.sw[2], bl.sw),
          QTask(se_prefix, t.depth + 1, se, ag.se[1], ag.se[2], bl.se)>>

\* the leaf loop run to its end on the cells ad: every empty cell of
\* agent_data[lo..hi] gets the mapper's answer
LeafLoop(t, ad) ==
    [n \in 1..Len(ad) |->
        IF n - 1 \in t.lo..(t.hi - 1) /\ ad[n].cell = 0
        THEN [ad[n] EXCEPT !.cell = Mapper(ad[n].agent, t.bldgs)]
        ELSE ad[n]]

\* process_region run on one thread, each rayon::join running its first
\* closure to the end and then its second: the cells after the call t on
\* the cells ad (a call at MaxDepth that must split does not return)
RECURSIVE ProcessRegionSequential(_, _)
ProcessRegionSequential(t, ad) ==
    IF ReturnsAtOnce(t) THEN ad
    ELSE IF IsLeaf(t) THEN LeafLoop(t, ad)
    ELSE IF t.depth >= MaxDepth THEN ad
    ELSE LET c == QuadrantCalls(t) IN
         ProcessRegionSequential(c[4],
             ProcessRegionSequential(c[3],
                 ProcessRegionSequential(c[2],
                     ProcessRegionSequential(c[1], ad))))

\* the iterator made while calls of process_region are still running
HarvestEarly ==
    /\ q_pc = "process"
    /\ q_err = "none"
    /\ output' = HarvestPairs(agent_data)
    /\ q_pc' = "done"
    /\ UNCHANGED <<splits, agents, bldgs, threshold, mapper, region, agent_data, qtasks, calls,
                   path_end, deepest, q_err>>

\* stage 4: the root call has returned (every join is over, none panicked)
Harvest ==
    /\ q_pc = "process"
    /\ qtasks = {}
    /\ q_err = "none"
    /\ output' = HarvestPairs(agent_data)
    /\ q_pc' = "done"
    /\ UNCHANGED <<splits, agents, bldgs, threshold, mapper, region, agent_data, qtasks, calls,
                   path_end, deepest, q_err>>

\* ------------------------------------------------------------------------
\* SpecQuad: map_vehicles on every input of a bounded set
\* ------------------------------------------------------------------------
Pt(x, y) == [x |-> x * Unit, y |-> y * Unit]

\* a building with the bbox [west, east] x [south, north], its centroid at
\* the middle of the bbox
Bldg(east, west, north, south, area) ==
    [bbox |-> RegionNew(east * Unit, west * Unit, north * Unit, south * Unit),
     centroid |-> [x |-> ((east + west) * Unit) \div 2, y |-> ((north + south) * Unit) \div 2],
     area |-> area]

\* (1, 1), (3, 3) and (2 1/4, 1)
AgentPos == {Pt(1, 1), Pt(3, 3), [x |-> (9 * Unit) \div 4, y |-> Unit]}

\* the last one has a bbox of width zero (a wall along x = 4)
BldgSet == {Bldg(2, 0, 2, 0, 4), Bldg(4, 2, 4, 2, 4), Bldg(4, 4, 4, 2, 16)}

Mappers == {"map_to_closest", "map_weighted"}

InitQuad ==
    /\ agents \in UNION {[1..n -> AgentPos] : n \in 0..MaxAgents}
    /\ bldgs \in UNION {[1..n -> BldgSet] : n \in 0..MaxBldgs}
    /\ threshold \in 1..MaxThreshold
    /\ mapper \in Mappers
    /\ region = "none"
    /\ agent_data = <<>>
    /\ qtasks = {}
    /\ calls = <<>>
    /\ path_end = <<>>
    /\ deepest = 0
    /\ splits = {}
    /\ output = <<>>
    /\ q_err = "none"
    /\ q_pc = "new"
    /\ PartitionIdle
    /\ TreeIdle
    /\ ZIdle
    /\ FixedIdle

NextQuad ==
    \/ ComputeRegion /\ UNCHANGED <<pvars, kvars, zvars, fvars>>
    \/ EncodeSort /\ UNCHANGED <<pvars, kvars, zvars, fvars>>
    \/ \E t \in qtasks : ProcessRegionReturn(t) /\ UNCHANGED <<pvars, kvars, zvars, fvars>>
    \/ \E t \in qtasks : ProcessRegionMap(t) /\ UNCHANGED <<pvars, kvars, zvars, fvars>>
    \/ \E t \in qtasks : ProcessRegionSplit(t) /\ UNCHANGED <<pvars, kvars, zvars, fvars>>
    \/ \E t \in qtasks : ProcessRegionShiftOverflow(t) /\ UNCHANGED <<pvars, kvars, zvars, fvars>>
    \/ \E t \in qtasks : ProcessRegionStackOverflow(t) /\ UNCHANGED <<pvars, kvars, zvars, fvars>>
    \/ Harvest /\ UNCHANGED <<pvars, kvars, zvars, fvars>>

SpecQuad == InitQuad /\ [][NextQuad]_vars

\* ------------------------------------------------------------------------
\* SpecCell: the leaf loop of process_region when an agent is in the range
\* of two calls ("the only way this can fail is if an agent were in multiple
\* regions at once, somehow"). The cells are as map_vehicles makes them,
\* OnceCell::new() for every agent; beside the root call, a leaf, there is a
\* second call on agent_data[lo..hi] with the building list bl.
\* ------------------------------------------------------------------------
InitCell ==
    /\ agents \in UNION {[1..n -> AgentPos] : n \in 0..MaxCellAgents}
    /\ bldgs \in UNION {[1..n -> BldgSet] : n \in 0..MaxBldgs}
    /\ threshold \in 1..MaxThreshold
    /\ ~MustSplit(QTask(0, 0, "none", 0, Len(agents), [b \in 1..Len(bldgs) |-> b]))
    /\ mapper \in Mappers
    /\ region = reduce_regions(BuildingsBBox(bldgs, Len(bldgs)), AgentsBBox(agents, Len(agents)))
    /\ region.west < region.east
    /\ region.south < region.north
    /\ LET zs == [a \in 1..Len(agents) |-> z_value(agents[a], region)] IN
          /\ \A a \in 1..Len(agents) : zs[a].some
          /\ \E p \in SortedOrders([a \in 1..Len(agents) |-> zs[a].z]) :
                agent_data = [n \in 1..Len(agents) |->
                                 [agent |-> p[n], z |-> zs[p[n]].z, cell |-> 0]]
    /\ \E lo \in 0..Len(agents), hi \in 0..Len(agents), b1 \in 0..Len(bldgs), b2 \in 0..Len(bldgs) :
          /\ lo <= hi
          /\ b1 <= b2
          /\ qtasks = {QTask(0, 0, region, 0, Len(agents), [b \in 1..Len(bldgs) |-> b]),
                       QTask(0, 1, region, lo, hi, [b \in 1..(b2 - b1) |-> b1 + b])}
    /\ \A t \in qtasks : ~MustSplit(t)
    /\ calls = <<>>
    /\ path_end = [a \in 1..Len(agents) |-> [b \in 1..Len(bldgs) |-> b]]
    /\ deepest = 0
    /\ splits = {}
    /\ output = <<>>
    /\ q_err = "none"
    /\ q_pc = "process"
    /\ PartitionIdle
    /\ TreeIdle
    /\ ZIdle
    /\ FixedIdle

NextCell ==
    \/ \E t \in qtasks : ProcessRegionReturn(t) /\ UNCHANGED <<pvars, kvars, zvars, fvars>>
    \/ \E t \in qtasks : ProcessRegionMap(t) /\ UNCHANGED <<pvars, kvars, zvars, fvars>>
    \/ Harvest /\ UNCHANGED <<pvars, kvars, zvars, fvars>>

SpecCell == InitCell /\ [][NextCell]_vars

\* ------------------------------------------------------------------------
\* Properties of partition
\* ------------------------------------------------------------------------
\* C10: for every non-empty array, partition returns (lt, pivot, ge) with
\* every element of lt strictly less than pivot and every element of ge
\* greater than or equal to pivot
C10_PartitionStrict ==
    (p_pc = "done" /\ Len(p_array) >= 1) =>
        /\ p_out.status = "ok"
        /\ \A n \in 1..Len(p_out.lt) : p_out.lt[n] < p_out.pivot
        /\ \A n \in 1..Len(p_out.ge) : p_out.ge[n] >= p_out.pivot

\* ------------------------------------------------------------------------
\* Properties of the kd tree
\* ------------------------------------------------------------------------
\* squared distance of record r to the query point
RecDist(r) == squared_dist(points[r], query)

\* the records whose squared distance is strictly less than max_dist squared
Within == {r \in 1..Len(points) : RecDist(r) < Powi2(max_dist)}

\* the records of S in ascending squared distance
RECURSIVE SortedByDist(_)
SortedByDist(S) ==
    IF S = {} THEN <<>>
    ELSE LET m == CHOOSE r \in S : \A o \in S : RecDist(r) <= RecDist(o)
         IN  <<m>> \o SortedByDist(S \ {m})

\* brute force: filter, sort, keep the first k (k = Len(best))
BruteForce ==
    LET srt == SortedByDist(Within)
    IN  SubSeq(srt, 1, IF Len(best) < Len(srt) THEN Len(best) ELSE Len(srt))

DistinctDists ==
    \A r, o \in 1..Len(points) : r # o => RecDist(r) # RecDist(o)

\* C1: collect_nearest returns the brute-force result: the same sequence of
\* squared distances, each the distance of the record it comes with, and the
\* same records in the same order when the distances are pairwise distinct
C1_KnnIsBruteForce ==
    k_pc = "done" =>
        /\ Len(knn) = Len(BruteForce)
        /\ \A n \in 1..Len(knn) :
              /\ knn[n].rec \in 1..Len(points)
              /\ knn[n].d = RecDist(knn[n].rec)
              /\ knn[n].d = RecDist(BruteForce[n])
        /\ DistinctDists => \A n \in 1..Len(knn) : knn[n].rec = BruteForce[n]

\* a finished query over three or more records that returned two neighbours
\* at different distances and left out a record beyond max_dist
C1_Witness ==
    /\ k_pc = "done"
    /\ Len(points) >= 3
    /\ Len(knn) = 2
    /\ knn[1].d < knn[2].d
    /\ Within # 1..Len(points)
    /\ Cardinality(Within) >= 2

\* C5: no record whose Euclidean distance to q is greater than or equal to
\* max_dist is written into the output (dist < max_dist iff max_dist > 0 and
\* dist^2 < max_dist^2)
C5_NoneBeyondMaxDist ==
    \A n \in 1..Len(best) :
        best[n].rec # None =>
            (max_dist > 0 /\ RecDist(best[n].rec) < Powi2(max_dist))

\* number of records in the subtree rooted at node id
SubtreeSize(id) == IF id \in DOMAIN built_from THEN Len(built_from[id].refs) ELSE 0

\* coordinate of record r on the axis
AxisOf(r, y_axis) == IF y_axis THEN points[r].y ELSE points[r].x

\* m is the median of the three values a, b, c
IsMedian3(m, a, b, c) ==
    /\ m \in {a, b, c}
    /\ Cardinality({n \in 1..3 : <<a, b, c>>[n] <= m}) >= 2
    /\ Cardinality({n \in 1..3 : <<a, b, c>>[n] >= m}) >= 2

CallsOf(a) == {c \in 1..Len(calls) : calls[c].agent = a}

\* the agents that appear in the output
Yielded == {output[n].agent : n \in 1..Len(output)}

\* the run is over: harvested, or a panic and no task left to finish
RunEnded == q_pc = "done" \/ (q_pc = "process" /\ qtasks = {} /\ q_err # "none")

\* C2: no agent's slot is written more than once: the agent ranges of the
\* calls in flight are pairwise disjoint, no agent is handed to the mapper
\* twice, and the 'could not set agent mapping' abort does not happen
C2_SingleAssignment ==
    /\ q_err # "could not set agent mapping"
    /\ \A t, u \in qtasks : t # u => (t.hi <= u.lo \/ u.hi <= t.lo)
    /\ \A a \in 1..Len(agents) : Cardinality(CallsOf(a)) <= 1

\* a harvested run that split and filled the cells of two agents in
\* different leaves
C2_Witness ==
    /\ q_pc = "done"
    /\ deepest >= 1
    /\ \E m, n \in 1..Len(agent_data) :
          /\ m # n
          /\ agent_data[m].cell # 0
          /\ agent_data[n].cell # 0
          /\ path_end[agent_data[m].agent] # path_end[agent_data[n].agent]

\* C3: every yielded (agent, building) is the value the mapper returned in a
\* call made with that agent and with the building list of the leaf call
\* that holds the agent, and is one of the input buildings
C3_MapperConformance ==
    q_pc = "done" =>
        \A n \in 1..Len(output) :
            /\ \E c \in CallsOf(output[n].agent) :
                  /\ calls[c].ret = output[n].bldg
                  /\ calls[c].bldgs = path_end[output[n].agent]
            /\ output[n].bldg = Mapper(output[n].agent, path_end[output[n].agent])
            /\ output[n].bldg \in Range(path_end[output[n].agent])
            /\ output[n].bldg \in 1..Len(bldgs)

\* a harvested run after a split that yields two agents, the first yielded
\* not being the first of the input, mapped to different buildings
C3_Witness ==
    /\ q_pc = "done"
    /\ deepest >= 1
    /\ Len(output) >= 2
    /\ output[1].agent # 1
    /\ output[1].bldg # output[2].bldg

\* C4: the recursion runs to completion: no call is made at depth Bits (32)
\* or more, and no shift overflow or stack exhaustion ends it
C4_RecursionCompletes ==
    /\ deepest < Bits
    /\ q_err \notin {"attempt to shift right with overflow", "stack overflow"}

\* C6: once the run is over, every agent whose path ended in a call with a
\* non-empty building list has its slot written and is in the output
C6_MappedUnlessNoBuilding ==
    RunEnded =>
        \A n \in 1..Len(agent_data) :
            path_end[agent_data[n].agent] # <<>> =>
                /\ agent_data[n].cell # 0
                /\ q_pc = "done"
                /\ agent_data[n].agent \in Yielded

\* C7: every call of the mapper gets fewer than split_threshold buildings
C7_FewerThanThreshold ==
    \A c \in 1..Len(calls) : Len(calls[c].bldgs) < threshold

\* C8: the mapper is called exactly once for each agent of the input, and
\* never with an empty building slice
C8_OncePerAgent ==
    /\ \A c \in 1..Len(calls) : calls[c].bldgs # <<>>
    /\ q_pc = "done" => \A a \in 1..Len(agents) : Cardinality(CallsOf(a)) = 1

\* ------------------------------------------------------------------------
\* Properties of ZValue
\* ------------------------------------------------------------------------
\* bit k (from 0) of a word
BitAt(a, k) == a[k + 1]

Interleaved(z, p) ==
    \A k \in 0..31 : BitAt(z, 2 * k) = BitAt(p.x, k) /\ BitAt(z, 2 * k + 1) = BitAt(p.y, k)

\* C11: once the ZValues are made, bit 2k of each is bit k of its point's X
\* and bit 2k+1 is bit k of its Y, for every k in 0..31; new(0xFFFF_FFFF, 0)
\* is 0x5555_5555_5555_5555, new(0, 0xFFFF_FFFF) is 0xAAAA_AAAA_AAAA_AAAA
\* and new(1, 1) is 3.
C11_Interleave ==
    z_pc \in {"compare", "done"} =>
        /\ Interleaved(z_out.z1, z_p1)
        /\ Interleaved(z_out.z2, z_p2)
        /\ (z_p1.x = WordOfBytes(<<255, 255, 255, 255>>) /\ z_p1.y = WordOfBytes(<<0, 0, 0, 0>>))
              => z_out.z1 = WordOfBytes(<<85, 85, 85, 85, 85, 85, 85, 85>>)
        /\ (z_p1.x = WordOfBytes(<<0, 0, 0, 0>>) /\ z_p1.y = WordOfBytes(<<255, 255, 255, 255>>))
              => z_out.z1 = WordOfBytes(<<170, 170, 170, 170, 170, 170, 170, 170>>)
        /\ (z_p2.x = WordOfBytes(<<1, 0, 0, 0>>) /\ z_p2.y = WordOfBytes(<<1, 0, 0, 0>>))
              => z_out.z2 = WordOfBytes(<<3, 0, 0, 0, 0, 0, 0, 0>>)

\* new(0xFFFF_FFFF, 0) and new(1, 1) have been computed
C11_Witness ==
    /\ z_pc = "compare"
    /\ z_p1.x = WordOfBytes(<<255, 255, 255, 255>>) /\ z_p1.y = WordOfBytes(<<0, 0, 0, 0>>)
    /\ z_p2.x = WordOfBytes(<<1, 0, 0, 0>>) /\ z_p2.y = WordOfBytes(<<1, 0, 0, 0>>)
    /\ z_out.z1 = WordOfBytes(<<85, 85, 85, 85, 85, 85, 85, 85>>)
    /\ WordValue(z_out.z2) = 3

\* a ^ b
WordXor(a, b) == [k \in DOMAIN a |-> IF a[k] # b[k] THEN 1 ELSE 0]

\* u32::leading_zeros
RECURSIVE LeadingZerosFrom(_, _)
LeadingZerosFrom(a, k) ==
    IF k = 0 \/ a[k] = 1 THEN Len(a) - k ELSE LeadingZerosFrom(a, k - 1)

leading_zeros(a) == LeadingZerosFrom(a, Len(a))

\* C12: the order of the two ZValues is the order of the X coordinates when
\* the highest set bit of x1 XOR x2 is strictly higher than that of
\* y1 XOR y2, and the order of the Y coordinates otherwise (equal bit
\* positions and equal points included).
C12_Discriminator ==
    z_pc = "done" =>
        z_out.cmp = IF leading_zeros(WordXor(z_p1.x, z_p2.x))
                         < leading_zeros(WordXor(z_p1.y, z_p2.y))
                    THEN WordCmp(z_p1.x, z_p2.x)
                    ELSE WordCmp(z_p1.y, z_p2.y)

\* a pair whose X and Y differ first at the same bit, in opposite directions
C12_Witness ==
    /\ z_pc = "done"
    /\ leading_zeros(WordXor(z_p1.x, z_p2.x)) = leading_zeros(WordXor(z_p1.y, z_p2.y))
    /\ WordCmp(z_p1.x, z_p2.x) = "Greater"
    /\ WordCmp(z_p1.y, z_p2.y) = "Less"
    /\ z_out.cmp = "Less"

\* C13: cmp_x of the two ZValues is the comparison of x1 with x2 and the
\* comparison of the two x_bits values, whatever the Y coordinates are;
\* cmp_y and y_bits likewise agree with the comparison of y1 with y2.
C13_AxisAgreement ==
    z_pc = "done" =>
        /\ z_out.cmp_x = WordCmp(z_p1.x, z_p2.x)
        /\ z_out.cmp_x = WordCmp(x_bits(z_out.z1), x_bits(z_out.z2))
        /\ z_out.cmp_y = WordCmp(z_p1.y, z_p2.y)
        /\ z_out.cmp_y = WordCmp(y_bits(z_out.z1), y_bits(z_out.z2))

\* X orders one way, Y and the full ZValues the other way
C13_Witness ==
    /\ z_pc = "done"
    /\ z_out.cmp_x = "Less"
    /\ z_out.cmp_y = "Greater"
    /\ z_out.cmp = "Greater"
    /\ z_p1.x # WordOfBytes(<<0, 0, 0, 0>>)

\* ------------------------------------------------------------------------
\* Properties of UnitFixedPoint
\* ------------------------------------------------------------------------
Cmp(a, b) == IF a < b THEN "Less" ELSE IF a > b THEN "Greater" ELSE "Equal"

InUnit(x) == 0 <= x /\ x < FracDen

Abs(v) == IF v < 0 THEN -v ELSE v

\* C14: two reals of [0, 1) and their encodings are ordered the same way:
\* less gives less, greater gives greater, equal gives equal.
C14_OrderPreserved ==
    (f_pc = "done" /\ InUnit(f_out[1].x) /\ InUnit(f_out[2].x)) =>
        Cmp(f_out[1].x, f_out[2].x) = Cmp(f_out[1].n, f_out[2].n)

\* C15: of two reals a < b (infinities included) the encoding of a is at
\* most that of b; a real <= 0 encodes to 0, a real >= 1 to u32::MAX and a
\* real x in between to floor(x * u32::MAX).
C15_Monotone ==
    /\ f_pc = "done" /\ f_out[1].x < f_out[2].x => f_out[1].n <= f_out[2].n
    /\ \A i \in 1..Len(f_out) :
          LET x == f_out[i].x
              n == f_out[i].n
          IN  /\ x <= 0 => n = 0
              /\ x >= FracDen => n = (2 ^ Bits) - 1
              /\ (0 < x /\ x < FracDen) =>
                    /\ n * FracDen <= x * ((2 ^ Bits) - 1)
                    /\ x * ((2 ^ Bits) - 1) < (n + 1) * FracDen

\* a real below 0 and a real above 1 have been converted, in this order
C15_Witness ==
    /\ f_pc = "done"
    /\ f_out[1].x = -INFINITY /\ f_out[1].n = 0
    /\ f_out[2].x > FracDen /\ f_out[2].x < INFINITY /\ f_out[2].n = (2 ^ Bits) - 1

ZOf(a) == z_value(agents[a], region).z

\* C17: the yielded sequence is in non-decreasing order of the agents'
\* Z-values, holds each agent at most once and omits exactly the agents
\* whose slot is empty after the recursion.
C17_OutputInZOrder ==
    q_pc = "done" =>
        /\ \A m, n \in 1..Len(output) :
              m < n => /\ ZOf(output[m].agent) <= ZOf(output[n].agent)
                       /\ output[m].agent # output[n].agent
        /\ Yielded = {agent_data[n].agent : n \in {i \in 1..Len(agent_data) : agent_data[i].cell # 0}}

\* two agents are yielded in the order of their Z-values, which is the
\* reverse of their order in the input
C17_Witness ==
    /\ q_pc = "done"
    /\ Len(output) >= 2
    /\ output[1].agent > output[2].agent
    /\ ZOf(output[1].agent) < ZOf(output[2].agent)

\* the x and the y coordinates that are folded into the region
FoldedXs ==
    {agents[a].x : a \in 1..Len(agents)}
        \cup {bldgs[b].bbox.east : b \in 1..Len(bldgs)}
        \cup {bldgs[b].bbox.west : b \in 1..Len(bldgs)}

FoldedYs ==
    {agents[a].y : a \in 1..Len(agents)}
        \cup {bldgs[b].bbox.north : b \in 1..Len(bldgs)}
        \cup {bldgs[b].bbox.south : b \in 1..Len(bldgs)}

\* the folded region has east <= west or north <= south: nothing is folded,
\* or all x or all y coordinates are one value
Degenerate == Cardinality(FoldedXs) <= 1 \/ Cardinality(FoldedYs) <= 1

\* C18: when the region folded from all bboxes and agent positions has
\* east <= west or north <= south, map_vehicles aborts on its validation,
\* before any agent is encoded and before the mapper is called.
C18_DegenerateRegionRejected ==
    (q_pc # "new" /\ Degenerate) =>
        /\ q_pc = "panic"
        /\ q_err \in {"invalid region east-west length", "invalid region north-south length"}
        /\ agent_data = <<>>
        /\ calls = <<>>
        /\ output = <<>>

\* the abort for two agents at one position and no building
C18_Witness ==
    /\ q_pc = "panic"
    /\ Len(agents) = 2
    /\ bldgs = <<>>
    /\ Degenerate
    /\ region.east = region.west

\* ------------------------------------------------------------------------
\* Properties of the queries (continued)
\* ------------------------------------------------------------------------
\* C19: on a tree built from zero records every slot of the output slice is
\* (None, INFINITY) after nearest_neighbors, whatever it held before, and
\* collect_nearest returns an empty Vec; with an empty slice (k = 0) the
\* call returns without a panic and no node is ever visited.
C19_EmptyTreeEmptySlots ==
    /\ (k_pc = "done" /\ points = <<>>) =>
          /\ \A n \in 1..Len(best) : best[n] = EmptySlot
          /\ knn = <<>>
    /\ stack # <<>> => Len(best) > 0
    /\ ((k_pc \in {"query", "done", "panic"}) /\ best = <<>>) => (k_pc = "done" /\ knn = <<>>)

\* a query with k = MaxK has returned from the tree built from no record
C19_Witness ==
    /\ k_pc = "done"
    /\ points = <<>>
    /\ nodes = <<>>
    /\ Len(best) = MaxK

\* C20: every agent in the agent range of a process_region call lies
\* inside the region of the call.
C20_AgentsInsideRegion ==
    \A t \in qtasks : \A n \in t.lo..(t.hi - 1) :
        Contains(t.region, agents[At(agent_data, n).agent])

\* ------------------------------------------------------------------------
\* Properties of the splits of process_region
\* ------------------------------------------------------------------------
\* the top n bits of a Z-value (all of them when n is the width or more)
TopBits(z, n) == IF n >= ZBits THEN z ELSE z \div (2 ^ (ZBits - n))

\* the Z-value at index n (from 0) of agent_data
ZAt(n) == At(agent_data, n).z

\* the indices lo .. hi - 1 of a range <<lo, hi>>
Indices(r) == r[1]..(r[2] - 1)

\* C21: at every split at depth d with prefix p every agent of the range
\* has the top 2d bits of p; the sub-ranges SW, SE, NW, NE are contiguous,
\* in that order, and cover the range; they hold exactly the agents with a
\* Z-value below p|x_bit, in [p|x_bit, p|y_bit), in [p|y_bit, p|x_bit|y_bit)
\* and at or above p|x_bit|y_bit: each boundary is the first index whose
\* Z-value is at or above the prefix searched for.
C21_SplitByPrefix ==
    \A s \in splits :
        LET t == s.call
            p == t.prefix
            px == BitOr(p, x_bit(t.depth))
            py == BitOr(p, y_bit(t.depth))
            pxy == BitOr(BitOr(p, y_bit(t.depth)), x_bit(t.depth))
            ag == s.agents
        IN  /\ \A n \in t.lo..(t.hi - 1) : TopBits(ZAt(n), 2 * t.depth) = TopBits(p, 2 * t.depth)
            /\ ag.sw[1] = t.lo /\ ag.sw[2] = ag.se[1] /\ ag.se[2] = ag.nw[1]
            /\ ag.nw[2] = ag.ne[1] /\ ag.ne[2] = t.hi
            /\ ag.sw[1] <= ag.sw[2] /\ ag.se[1] <= ag.se[2]
            /\ ag.nw[1] <= ag.nw[2] /\ ag.ne[1] <= ag.ne[2]
            /\ \A n \in t.lo..(t.hi - 1) :
                  /\ n \in Indices(ag.sw) <=> ZAt(n) < px
                  /\ n \in Indices(ag.se) <=> (px <= ZAt(n) /\ ZAt(n) < py)
                  /\ n \in Indices(ag.nw) <=> (py <= ZAt(n) /\ ZAt(n) < pxy)
                  /\ n \in Indices(ag.ne) <=> pxy <= ZAt(n)

\* C22: an agent whose Z-value equals the prefix a boundary is searched
\* for is placed below the boundary, in the lower quadrant's sub-range.
C22_TiesToLowerQuadrant ==
    \A s \in splits :
        LET t == s.call
            px == BitOr(t.prefix, x_bit(t.depth))
            py == BitOr(t.prefix, y_bit(t.depth))
            pxy == BitOr(BitOr(t.prefix, y_bit(t.depth)), x_bit(t.depth))
            ag == s.agents
        IN  \A n \in t.lo..(t.hi - 1) :
                /\ ZAt(n) = py => n < ag.nw[1]
                /\ (ZAt(n) = pxy /\ n >= ag.nw[1]) => n < ag.ne[1]
                /\ (ZAt(n) = px /\ n < ag.nw[1]) => n < ag.se[1]

\* C22 (amended): an agent whose Z-value equals the prefix a boundary is
\* searched for is placed at or above the boundary, in the sub-range of the
\* upper quadrant, however many agents share that Z-value.
C22_TiesToUpperQuadrant ==
    \A s \in splits :
        LET t == s.call
            px == BitOr(t.prefix, x_bit(t.depth))
            py == BitOr(t.prefix, y_bit(t.depth))
            pxy == BitOr(BitOr(t.prefix, y_bit(t.depth)), x_bit(t.depth))
            ag == s.agents
        IN  \A n \in t.lo..(t.hi - 1) :
                /\ ZAt(n) = py => n >= ag.nw[1]
                /\ (ZAt(n) = pxy /\ n >= ag.nw[1]) => n >= ag.ne[1]
                /\ (ZAt(n) = px /\ n < ag.nw[1]) => n >= ag.se[1]

\* a split of the root call with two agents whose Z-value is the prefix of
\* the NE quadrant, both placed in the NE sub-range, below an agent of SW
C22_Witness ==
    \E s \in splits :
        /\ s.call.depth = 0
        /\ s.agents.ne[2] - s.agents.ne[1] = 2
        /\ s.agents.sw[2] - s.agents.sw[1] = 1
        /\ \A n \in Indices(s.agents.ne) :
              ZAt(n) = BitOr(BitOr(0, y_bit(0)), x_bit(0))

Quadrant == {"sw", "se", "nw", "ne"}

InList(b, l) == \E n \in 1..Len(l) : l[n] = b

PositiveArea(r) == r.east > r.west /\ r.north > r.south

\* C23: at every split, a building of the call's list whose bbox has
\* east >= west and north >= south is in a quadrant's sub-list exactly when
\* its bbox intersects the quadrant's sub-region.
C23_SubListIffIntersects ==
    \A s \in splits : \A qd \in Quadrant : \A b \in DOMAIN bldgs :
        (InList(b, s.call.bldgs) /\ bldgs[b].bbox.east >= bldgs[b].bbox.west
                                 /\ bldgs[b].bbox.north >= bldgs[b].bbox.south)
            => (InList(b, s.bldgs[qd]) <=> Intersects(s.region[qd], bldgs[b].bbox))

\* C23 (amended): the same for the buildings whose bbox has east > west and
\* north > south; the list of every call holds such a building only if its
\* bbox intersects the call's region, and no sub-list holds a building that
\* the call's list does not hold.
C23_SubListIffIntersectsPositiveArea ==
    /\ \A s \in splits : \A qd \in Quadrant : \A b \in DOMAIN bldgs :
          /\ (InList(b, s.call.bldgs) /\ PositiveArea(bldgs[b].bbox))
                => (InList(b, s.bldgs[qd]) <=> Intersects(s.region[qd], bldgs[b].bbox))
          /\ InList(b, s.bldgs[qd]) => InList(b, s.call.bldgs)
    /\ \A t \in qtasks : \A b \in DOMAIN bldgs :
          (InList(b, t.bldgs) /\ PositiveArea(bldgs[b].bbox))
              => Intersects(t.region, bldgs[b].bbox)

\* a split that put a building of positive area in all four sub-lists, and
\* a split that put one in the SW sub-list only
C23_Witness ==
    /\ \E s \in splits : \E b \in DOMAIN bldgs :
          /\ PositiveArea(bldgs[b].bbox)
          /\ \A qd \in Quadrant : InList(b, s.bldgs[qd])
    /\ \E s \in splits : \E b \in DOMAIN bldgs :
          /\ PositiveArea(bldgs[b].bbox)
          /\ InList(b, s.call.bldgs)
          /\ InList(b, s.bldgs.sw)
          /\ \A qd \in Quadrant \ {"sw"} : ~InList(b, s.bldgs[qd])

\* ------------------------------------------------------------------------
\* Properties of the shape of the kd tree
\* ------------------------------------------------------------------------
RECURSIVE NodeDepth(_)
\* depth of node id (the root, node 1, is at depth 0)
NodeDepth(id) == IF id <= 1 THEN 0 ELSE 1 + NodeDepth(id \div 2)

RECURSIVE IsUnder(_, _)
\* node j is node id or one of its descendants
IsUnder(j, id) == IF j < id THEN FALSE ELSE IF j = id THEN TRUE ELSE IsUnder(j \div 2, id)

\* C24: each node at depth d splits on X when d is even and on Y when d is
\* odd; every record of its left subtree is strictly less than the node's
\* record on that axis and every record of its right subtree is greater than
\* or equal to it, the nodes built by the 2-record case included.
C24_SearchTreeOrder ==
    \A id \in DOMAIN nodes :
        LET ax == built_from[id].y_axis IN
        /\ ax = (NodeDepth(id) % 2 = 1)
        /\ \A j \in DOMAIN nodes :
              /\ IsUnder(j, 2 * id) => AxisOf(nodes[j], ax) < AxisOf(nodes[id], ax)
              /\ IsUnder(j, 2 * id + 1) => AxisOf(nodes[j], ax) >= AxisOf(nodes[id], ax)

\* a finished build of height three: the root has both subtrees, a record
\* equal to the root's on X is on its right, and a node at depth 1 has a
\* child
C24_Witness ==
    /\ k_pc = "build"
    /\ btasks = {}
    /\ {1, 2, 3} \subseteq DOMAIN nodes
    /\ \E j \in DOMAIN nodes : /\ IsUnder(j, 3)
                                /\ points[nodes[j]].x = points[nodes[1]].x
    /\ \E j \in DOMAIN nodes : NodeDepth(j) = 2

\* the records in the slices of the TreeNode::new calls not yet run
Pending == {At(refs, n) : n \in UNION {t.lo..(t.hi - 1) : t \in btasks}}

\* the records held by the nodes built so far
Held == {nodes[id] : id \in DOMAIN nodes}

\* C25: the tree built from n records has exactly n nodes and every record
\* is held by exactly one node: at every point of the build, under every
\* schedule, refs is a permutation of the records, the slices of the pending
\* calls are disjoint, and each record is either held by exactly one node or
\* in exactly one pending slice; 0 records give an empty tree, 1 a single
\* leaf, 2 a root with exactly one child. The build never panics.
C25_OneNodePerRecord ==
    /\ Len(refs) = Len(points)
    /\ {refs[n] : n \in 1..Len(refs)} = 1..Len(points)
    /\ \A t, u \in btasks : t # u => (t.lo..(t.hi - 1)) \cap (u.lo..(u.hi - 1)) = {}
    /\ \A i, j \in DOMAIN nodes : nodes[i] = nodes[j] => i = j
    /\ Held \cap Pending = {}
    /\ Held \cup Pending = 1..Len(points)
    /\ btasks = {} =>
          /\ Cardinality(DOMAIN nodes) = Len(points)
          /\ Len(points) = 0 => nodes = <<>>
          /\ Len(points) = 1 => DOMAIN nodes = {1}
          /\ Len(points) = 2 => (DOMAIN nodes = {1, 2} \/ DOMAIN nodes = {1, 3})
    /\ (k_pc = "panic") => stack # <<>>

\* a finished build from MaxPts records in which partition reordered refs
C25_Witness ==
    /\ k_pc = "build"
    /\ btasks = {}
    /\ Len(points) = MaxPts
    /\ Cardinality(DOMAIN nodes) = MaxPts
    /\ refs # [n \in 1..Len(points) |-> n]

\* ------------------------------------------------------------------------
\* Properties of the traversal of a query
\* ------------------------------------------------------------------------
\* number of filled slots of the buffer b
FilledCount(b) == Cardinality({n \in 1..Len(b) : b[n].rec # None})

\* b is sorted by squared distance, its filled slots hold a finite distance
\* and come before its unfilled slots, which are all (None, INFINITY)
SortedFilledFirst(b) ==
    /\ \A n \in 1..(Len(b) - 1) : b[n].d <= b[n + 1].d
    /\ \A n \in 1..Len(b) :
          IF b[n].rec = None
          THEN b[n] = EmptySlot /\ \A m \in n..Len(b) : b[m].rec = None
          ELSE b[n].d < INFINITY

\* C26: during a query and on return best is sorted by squared distance with
\* every filled slot before every unfilled (None, INFINITY) slot; from one
\* step to the next the number of filled slots never decreases and the
\* squared distance in the last slot never increases; no node is visited
\* twice.
C26_BestSortedAndMonotone ==
    /\ [](k_pc \in {"query", "done"} =>
            /\ SortedFilledFirst(best)
            /\ \A m, n \in 1..Len(visited) : visited[m] = visited[n] => m = n)
    /\ [][(k_pc = "query" /\ k_pc' \in {"query", "done"}) =>
            /\ Len(best') = Len(best)
            /\ FilledCount(best') >= FilledCount(best)
            /\ best'[Len(best')].d <= best[Len(best)].d]_vars

\* a finished query with a full buffer of two slots that visited three or
\* more nodes, all of them within max_dist: a record was shifted out
C26_Witness ==
    /\ k_pc = "done"
    /\ Len(best) = 2
    /\ FilledCount(best) = 2
    /\ Len(visited) >= 3
    /\ \A n \in 1..Len(visited) : RecDist(nodes[visited[n]]) < Powi2(max_dist)

\* the candidate of the node on top of the stack
Candidate == [rec |-> nodes[Top.id], d |-> RecDist(nodes[Top.id])]

\* C27: a candidate is inserted after every record of best at the same (or
\* a smaller) squared distance, the records already there keeping their
\* order; a candidate whose squared distance equals the one in the last slot
\* is not inserted; the result is the function TreeNodeNearestNeighbors of
\* the tree, q, k and max_dist.
C27_TiesKeepFirst ==
    /\ [][(k_pc = "query" /\ best' # best) =>
            \E idx \in 1..Len(best) :
                /\ best'[idx] = Candidate
                /\ \A n \in 1..(idx - 1) : best'[n] = best[n] /\ best[n].d <= Candidate.d
                /\ \A n \in (idx + 1)..Len(best) :
                      best'[n] = best[n - 1] /\ best[n - 1].d > Candidate.d]_vars
    /\ [][(k_pc = "query" /\ stack # <<>> /\ Top.pc = "visit"
                          /\ Candidate.d = best[Len(best)].d) => best' = best]_vars
    /\ [](k_pc = "done" /\ 1 \in DOMAIN nodes /\ Len(best) > 0 =>
            best = TreeNodeNearestNeighbors(1, query, [n \in 1..Len(best) |-> EmptySlot],
                                            FALSE, Powi2(max_dist)))

\* a finished query whose two slots hold records at the same distance,
\* which visited a third record at that distance within max_dist and left
\* it out
C27_Witness ==
    /\ k_pc = "done"
    /\ Len(best) = 2
    /\ FilledCount(best) = 2
    /\ best[1].d = best[2].d
    /\ \E n \in 1..Len(visited) :
          /\ nodes[visited[n]] \notin {best[1].rec, best[2].rec}
          /\ RecDist(nodes[visited[n]]) = best[2].d
          /\ RecDist(nodes[visited[n]]) < Powi2(max_dist)

\* ------------------------------------------------------------------------
\* Properties of the fork-join recursion of process_region
\* ------------------------------------------------------------------------
\* the cells left by a run of the root call on one thread
SequentialCells ==
    ProcessRegionSequential(
        QTask(0, 0, region, 0, Len(agents), [b \in 1..Len(bldgs) |-> b]),
        [n \in 1..Len(agent_data) |-> [agent_data[n] EXCEPT !.cell = 0]])

\* C28: at harvest every call of process_region has finished, the cell of
\* every agent holds what a run on one thread leaves in it, whatever the
\* order the quadrant calls ran in, and the pairs yielded are those of that
\* run; the step to harvest is taken only when no call is left and writes no
\* cell.
C28_ScheduleIndependent ==
    /\ [](q_pc = "done" =>
            /\ qtasks = {}
            /\ agent_data = SequentialCells
            /\ output = HarvestPairs(SequentialCells))
    /\ [][q_pc' = "done" => (qtasks = {} /\ agent_data' = agent_data)]_vars

\* a harvest after a split whose quadrant calls, two or more of them with
\* agents and buildings, filled the cells of two or more agents
C28_Witness ==
    /\ q_pc = "done"
    /\ Len(output) >= 2
    /\ \E s \in splits :
          Cardinality({qd \in Quadrant : /\ s.agents[qd][2] - s.agents[qd][1] > 0
                                        /\ Len(s.bldgs[qd]) > 0}) >= 2

\* ------------------------------------------------------------------------
\* Properties of the agent cells
\* ------------------------------------------------------------------------
\* the first call of the mapper made with agent a
FirstCallOf(a) == CHOOSE c \in CallsOf(a) : \A o \in CallsOf(a) : c <= o

\* C29: a cell is empty until the first write and holds the value of the
\* first write from then on: a second write to it aborts the run with
\* 'could not set agent mapping', leaves the value as it was, and no harvest
\* follows; no step replaces or clears the value of a filled cell.
C29_DoubleWriteDetected ==
    /\ [](\A n \in 1..Len(agent_data) :
            IF CallsOf(agent_data[n].agent) = {}
            THEN agent_data[n].cell = 0
            ELSE agent_data[n].cell = calls[FirstCallOf(agent_data[n].agent)].ret)
    /\ []((\E a \in 1..Len(agents) : Cardinality(CallsOf(a)) >= 2) =>
            (q_err = "could not set agent mapping" /\ q_pc # "done"))
    /\ [][\A n \in 1..Len(agent_data) :
            agent_data[n].cell # 0 => agent_data'[n].cell = agent_data[n].cell]_vars

\* a second write to a filled cell was made with another value than the
\* cell holds, and the run aborted
C29_Witness ==
    /\ q_err = "could not set agent mapping"
    /\ \E n \in 1..Len(agent_data) : \E c \in CallsOf(agent_data[n].agent) :
          /\ agent_data[n].cell # 0
          /\ calls[c].ret # agent_data[n].cell

\* ------------------------------------------------------------------------
\* Properties of the scanning loops of partition
\* ------------------------------------------------------------------------
\* C30: for every array of three or more elements the scanning loops of
\* partition end with the indices in bounds: the call returns (no index out
\* of bounds, no j below 0), lt and ge are the two sides of a split index
\* inside the range before the pivot.
C30_ScansStayInBounds ==
    (p_pc = "done" /\ Len(p_array) >= 3) =>
        /\ p_out.status = "ok"
        /\ Len(p_out.lt) \in 0..(Len(p_array) - 1)
        /\ Len(p_out.lt) + Len(p_out.ge) = Len(p_array) - 1

\* a call on an array of MaxLen elements whose loop swapped two elements
\* after the median of three was moved to the end
C30_Witness ==
    /\ p_pc = "done"
    /\ p_out.status = "ok"
    /\ Len(p_array) = MaxLen
    /\ p_out.arr # MedianOfThree(p_array, NaturalKey)

====
